---- MODULE Spec2Model ----
(***************************************************************************)
(* Verification model of utils_nlp:                                        *)
(*   - Tokenizer.preprocess_classification_tokens   (bert/common.py)       *)
(*   - Tokenizer.preprocess_ner_tokens              (bert/common.py)       *)
(*   - postprocess_token_labels        (bert/token_classification.py)      *)
(*   - create_data_loader and the loader it returns (bert/common.py)       *)
(*   - BERTTokenClassifier: __init__, fit, predict                         *)
(*                          (bert/common.py, bert/token_classification.py) *)
(*   - XLNetSequenceClassifier: __init__, fit, predict                     *)
(*                          (models/xlnet/sequence_classification.py)      *)
(*   - maybe_download                          (dataset/url_utils.py)      *)
(*   - SentEvalRunner                              (eval/senteval.py)      *)
(* Every component gets a specification of its own, in which the other     *)
(* components stay idle. A pure function gets a specification whose Init   *)
(* draws the arguments from bounded sets and whose action applies the      *)
(* function as the code computes it; an object gets one action per method, *)
(* and the training loops one action per statement group of the loop body. *)
(* Python floats 0.0 / 1.0 are written 0 / 1 (Python compares 1.0 == 1).   *)
(***************************************************************************)
EXTENDS Integers, Sequences, FiniteSets, TLC

VARIABLES
    \* ---- Tokenizer.preprocess_classification_tokens ----
    cls_pc,          \* "call" | "done"
    cls_tokens,      \* argument tokens: list of token lists
    cls_max_len,     \* argument max_len
    cls_ids,         \* returned tokens (id rows)
    cls_mask,        \* returned input_mask
    \* ---- Tokenizer.preprocess_ner_tokens, postprocess_token_labels ----
    ner_pc,          \* "call" | "returned" | "raised" | "post"
    ner_text,        \* argument text: list of strings (lists of characters)
    ner_max_len,     \* argument max_len
    ner_labels,      \* argument labels: [none |-> labels is None, val |-> list of tag lists]
    ner_label_map,   \* argument label_map: [none |-> label_map is None, val |-> dict]
    ner_trailing_piece_tag,  \* argument trailing_piece_tag
    ner_result,      \* the returned tuple
    ner_exc,         \* the exception that ended the call, "" when none
    post_remove,     \* postprocess argument remove_trailing_word_pieces
    post_mask_given, \* postprocess argument trailing_token_mask is not None
    post_result,     \* list returned by postprocess_token_labels
    \* ---- create_data_loader and the DataLoader it returns ----
    dl_pc,           \* "call" | "loader" | "iter" | "raised"
    dl_input_ids,    \* argument input_ids: list of id rows
    dl_input_mask,   \* argument input_mask: list of mask rows
    dl_label_ids,    \* argument label_ids: [none |-> label_ids is None, val |-> list of rows]
    dl_sample_method,\* argument sample_method
    dl_batch_size,   \* argument batch_size
    dl_dist,         \* process group of the environment: [world |-> 0 if none, rank |-> ..]
    dl_tensor_data,  \* the TensorDataset: list of row tuples
    dl_sampler,      \* the sampler object handed to the DataLoader
    dl_exc,          \* exception raised by create_data_loader: [type, msg]
    dl_order,        \* indices the sampler yields in the pass under way
    dl_pos,          \* number of those indices already batched
    dl_cur,          \* batches yielded so far in the pass under way
    dl_last,         \* batches of the last completed pass, <<>> when a pass is under way
    dl_prev,         \* batches of the completed pass before that
    \* ---- classifier wrappers: BERTTokenClassifier, XLNetSequenceClassifier ----
    wr_pc,           \* "new" | "raised" | "Constructed" | position inside fit
    wr_class,        \* the class that is instantiated
    wr_args,         \* constructor arguments
    wr_self,         \* instance attributes assigned so far: name -> value
    wr_loaded,       \* pretrained artefacts fetched so far, in call order
    wr_exc,          \* exception that ended the last call, "" when none
    wr_calls,        \* fit and predict calls started on the instance
    wr_weights,      \* parameters of self.model: optimizer updates applied to them
    wr_grad,         \* .grad of the parameters: "absent" | "zero" | "accumulated"
    wr_fit,          \* arguments and locals of the fit call under way or last ended
    wr_pred,         \* arguments and result of the last predict call
    \* ---- maybe_download ----
    dn_file,         \* the file at the target path: [exists, size]
    dn_calls,        \* maybe_download calls made for the path
    dn_last,         \* the last call: [expected_bytes, downloaded, st_size]
    dn_exc,          \* exception that ended the last call, "" when none
    \* ---- SentEvalRunner ----
    se_self,         \* instance attributes assigned so far: name -> value
    se_last,         \* the method called last
    se_exc,          \* exception that ended the last call, "" when none
    se_calls,        \* method calls made on the runner
    se_handed,       \* what run handed to the SentEval engine
    \* ---- postprocess_token_labels on its own ----
    pp_pc,           \* "call" | "returned" | "raised"
    pp_labels,       \* argument labels: list of label id rows
    pp_input_mask,   \* argument input_mask: list of mask rows
    pp_label_map,    \* argument label_map: [none, val]
    pp_remove,       \* argument remove_trailing_word_pieces
    pp_trailing_token_mask, \* argument trailing_token_mask: [none, val]
    pp_result        \* the returned list

cls_vars == <<cls_pc, cls_tokens, cls_max_len, cls_ids, cls_mask>>
ner_vars == <<ner_pc, ner_text, ner_max_len, ner_labels, ner_label_map,
              ner_trailing_piece_tag, ner_result, ner_exc,
              post_remove, post_mask_given, post_result>>

dl_vars == <<dl_pc, dl_input_ids, dl_input_mask, dl_label_ids, dl_sample_method,
             dl_batch_size, dl_dist, dl_tensor_data, dl_sampler, dl_exc,
             dl_order, dl_pos, dl_cur, dl_last, dl_prev>>

wr_vars == <<wr_pc, wr_class, wr_args, wr_self, wr_loaded, wr_exc, wr_calls,
             wr_weights, wr_grad, wr_fit, wr_pred>>

dn_vars == <<dn_file, dn_calls, dn_last, dn_exc>>

se_vars == <<se_self, se_last, se_exc, se_calls, se_handed>>

pp_vars == <<pp_pc, pp_labels, pp_input_mask, pp_label_map, pp_remove,
             pp_trailing_token_mask, pp_result>>

ext_vars == <<wr_vars, dn_vars, se_vars, pp_vars>>

vars == <<cls_vars, ner_vars, dl_vars, ext_vars>>

(***************************************************************************)
(* Bounds of the explored inputs                                           *)
(***************************************************************************)
MaxTokens == 2        \* longest token list handed to the classification preprocessing
MaxClsRows == 2       \* most token lists in one classification call
MaxLen == 4           \* largest small max_len tried (besides the ceiling cases)
MaxTextLen == 3       \* most characters in an input string of the NER preprocessing
MaxLabels == 2        \* most tags in the tag list supplied for one input string
MaxRows == 3          \* most rows handed to create_data_loader
MaxBatchSize == 3     \* largest batch_size handed to create_data_loader

(***************************************************************************)
(* Program constants                                                       *)
(***************************************************************************)
BERT_MAX_LEN == 512

\* The vocabulary of the pretrained tokenizer, restricted to the tokens used.
vocab ==
    [t \in {"[PAD]", "[UNK]", "[CLS]", "[SEP]", "a", "b", "ab", "##a"} |->
        CASE t = "[PAD]" -> 0
          [] t = "[UNK]" -> 100
          [] t = "[CLS]" -> 101
          [] t = "[SEP]" -> 102
          [] t = "a"     -> 1037
          [] t = "b"     -> 1038
          [] t = "ab"    -> 11113
          [] t = "##a"   -> 2050]

(***************************************************************************)
(* Python list primitives                                                  *)
(***************************************************************************)
Min(a, b) == IF a < b THEN a ELSE b
Max(a, b) == IF a > b THEN a ELSE b

\* x[0:stop]: a negative stop counts from the end of the list.
PySliceTo(x, stop) ==
    LET n == Len(x)
        e == IF stop < 0 THEN Max(n + stop, 0) ELSE Min(stop, n)
    IN  SubSeq(x, 1, e)

\* [v] * n: the empty list when n <= 0.
PyRepeat(v, n) == [i \in 1..Max(n, 0) |-> v]

\* tokenizer.convert_tokens_to_ids: a vocabulary lookup per token.
convert_tokens_to_ids(x) == [i \in 1..Len(x) |-> vocab[x[i]]]

(***************************************************************************)
(* Tokenizer.preprocess_classification_tokens                              *)
(***************************************************************************)
\* if max_len > BERT_MAX_LEN: max_len = BERT_MAX_LEN
ClampMaxLen(max_len) == IF max_len > BERT_MAX_LEN THEN BERT_MAX_LEN ELSE max_len

AddMarkers_KeepsOneMore(x, max_len) ==
    <<"[CLS]">> \o PySliceTo(x, max_len - 1) \o <<"[SEP]">>

\* ["[CLS]"] + x[0 : max_len - 2] + ["[SEP]"]
AddMarkers(x, max_len) == <<"[CLS]">> \o PySliceTo(x, max_len - 2) \o <<"[SEP]">>

\* x + [0] * (max_len - len(x))
PadIds(x, max_len) == x \o PyRepeat(0, max_len - Len(x))

InputMaskOf_AllOnes(y) == [i \in 1..Len(y) |-> 1]

\* [min(1, x) for x in y]
InputMaskOf(y) == [i \in 1..Len(y) |-> Min(1, y[i])]

ClsIdRow(x, max_len) ==
    PadIds(convert_tokens_to_ids(AddMarkers(x, max_len)), max_len)

ClsTokenChoices == {"[PAD]", "a"}
ClsTokenLists == UNION {[1..n -> ClsTokenChoices] : n \in 0..MaxTokens}
ClsInputs == UNION {[1..n -> ClsTokenLists] : n \in 0..MaxClsRows}
MaxLenChoices == (1..MaxLen) \cup {BERT_MAX_LEN, BERT_MAX_LEN + 1, 2 * BERT_MAX_LEN}

NoExc == [type |-> "", msg |-> <<>>]
NoSampler == [kind |-> "", perm |-> <<>>, num_replicas |-> 0, rank |-> 0]

DlIdle ==
    /\ dl_pc = "idle"
    /\ dl_input_ids = <<>>
    /\ dl_input_mask = <<>>
    /\ dl_label_ids = [none |-> TRUE, val |-> <<>>]
    /\ dl_sample_method = "random"
    /\ dl_batch_size = 1
    /\ dl_dist = [world |-> 0, rank |-> 0]
    /\ dl_tensor_data = <<>>
    /\ dl_sampler = NoSampler
    /\ dl_exc = NoExc
    /\ dl_order = <<>>
    /\ dl_pos = 0
    /\ dl_cur = <<>>
    /\ dl_last = <<>>
    /\ dl_prev = <<>>

NerIdle ==
    /\ ner_pc = "idle"
    /\ ner_text = <<>>
    /\ ner_max_len = 0
    /\ ner_labels = [none |-> TRUE, val |-> <<>>]
    /\ ner_label_map = [none |-> TRUE, val |-> <<>>]
    /\ ner_trailing_piece_tag = "X"
    /\ ner_result = <<>>
    /\ ner_exc = ""
    /\ post_remove = FALSE
    /\ post_mask_given = FALSE
    /\ post_result = <<>>

ClsIdle ==
    /\ cls_pc = "idle"
    /\ cls_tokens = <<>>
    /\ cls_max_len = 0
    /\ cls_ids = <<>>
    /\ cls_mask = <<>>

NoFit == [n |-> 0, batch_size |-> 0, num_epochs |-> 0, warmup |-> FALSE,
          token_type_ids |-> FALSE, logging_steps |-> 0, save_steps |-> 0,
          t_total |-> -1, steps |-> 0, epoch |-> 0, order |-> <<>>, pos |-> 0,
          nb_tr_steps |-> 0, global_step |-> 0, lr_logged |-> 0,
          loss_logged |-> 0, saved |-> 0,
          bound |-> FALSE, events |-> <<>>]
NoPred == [token_ids |-> <<>>, labels |-> FALSE, token_type_ids |-> FALSE,
           batch_size |-> 0, probabilities |-> FALSE, result |-> <<>>,
           probs |-> <<>>]
NoArgs == [language |-> "", num_labels |-> 0, cache_dir |-> "",
           batch_size |-> 0, num_epochs |-> 0]

WrIdle ==
    /\ wr_pc = "idle"
    /\ wr_class = ""
    /\ wr_args = NoArgs
    /\ wr_self = <<>>
    /\ wr_loaded = <<>>
    /\ wr_exc = ""
    /\ wr_calls = 0
    /\ wr_weights = 0
    /\ wr_grad = "absent"
    /\ wr_fit = NoFit
    /\ wr_pred = NoPred

NoFile == [exists |-> FALSE, size |-> 0]
NoCall == [expected_bytes |-> [none |-> TRUE, val |-> 0], downloaded |-> FALSE,
           st_size |-> 0]

DnIdle ==
    /\ dn_file = NoFile
    /\ dn_calls = 0
    /\ dn_last = NoCall
    /\ dn_exc = ""

SeIdle ==
    /\ se_self = <<>>
    /\ se_last = ""
    /\ se_exc = ""
    /\ se_calls = 0
    /\ se_handed = <<>>

PpIdle ==
    /\ pp_pc = "idle"
    /\ pp_labels = <<>>
    /\ pp_input_mask = <<>>
    /\ pp_label_map = [none |-> TRUE, val |-> <<>>]
    /\ pp_remove = FALSE
    /\ pp_trailing_token_mask = [none |-> TRUE, val |-> <<>>]
    /\ pp_result = <<>>

ExtIdle == WrIdle /\ DnIdle /\ SeIdle /\ PpIdle

ClsInit ==
    /\ cls_pc = "call"
    /\ cls_tokens \in ClsInputs
    /\ cls_max_len \in MaxLenChoices
    /\ cls_ids = <<>>
    /\ cls_mask = <<>>
    /\ NerIdle
    /\ DlIdle
    /\ ExtIdle

preprocess_classification_tokens ==
    /\ cls_pc = "call"
    /\ LET max_len == ClampMaxLen(cls_max_len)
           tokens == [r \in 1..Len(cls_tokens) |-> ClsIdRow(cls_tokens[r], max_len)]
       IN  /\ cls_ids' = tokens
           /\ cls_mask' = [r \in 1..Len(tokens) |-> InputMaskOf(tokens[r])]
    /\ cls_pc' = "done"
    /\ UNCHANGED <<cls_tokens, cls_max_len>>
    /\ UNCHANGED <<ner_vars, dl_vars, ext_vars>>

ClsNext == preprocess_classification_tokens

SpecCls == ClsInit /\ [][ClsNext]_vars

(***************************************************************************)
(* Tokenizer.preprocess_ner_tokens                                         *)
(***************************************************************************)
\* Names bound at module level in bert/common.py (imports, assignments,
\* classes and functions); a function body resolves its free names here.
CommonModuleNames ==
    {"Enum", "logging", "BertTokenizer", "torch", "DataLoader", "RandomSampler",
     "SequentialSampler", "TensorDataset", "DistributedSampler", "module_logger",
     "BERT_MAX_LEN", "Language", "Tokenizer", "create_data_loader",
     "BERTModelWrapper"}

\* str.split(): the maximal runs of non-whitespace characters, in order.
RECURSIVE SplitFrom(_, _, _)
SplitFrom(t, i, cur) ==
    IF i > Len(t)
    THEN (IF cur = <<>> THEN <<>> ELSE <<cur>>)
    ELSE IF t[i] = " "
         THEN (IF cur = <<>> THEN <<>> ELSE <<cur>>) \o SplitFrom(t, i + 1, <<>>)
         ELSE SplitFrom(t, i + 1, Append(cur, t[i]))

split(t) == SplitFrom(t, 1, <<>>)

\* The word pieces of the vocabulary: cont marks a "##" continuation piece.
WordPieces ==
    {[cont |-> FALSE, chars |-> <<"a">>,      tok |-> "a"],
     [cont |-> FALSE, chars |-> <<"b">>,      tok |-> "b"],
     [cont |-> FALSE, chars |-> <<"a", "b">>, tok |-> "ab"],
     [cont |-> TRUE,  chars |-> <<"a">>,      tok |-> "##a"]}

PieceAt(w, start, end) ==
    {p \in WordPieces : p.cont = (start > 0) /\ p.chars = SubSeq(w, start + 1, end)}

\* WordPiece: greedy longest-match-first from position start (0-based);
\* "[UNK]" is emitted where no piece matches.
RECURSIVE WordPieceFrom(_, _)
WordPieceFrom(w, start) ==
    IF start >= Len(w) THEN <<>>
    ELSE LET ends == {e \in (start + 1)..Len(w) : PieceAt(w, start, e) # {}}
         IN  IF ends = {} THEN <<"[UNK]">>
             ELSE LET end == CHOOSE e \in ends : \A f \in ends : f <= e
                      p == CHOOSE q \in PieceAt(w, start, end) : TRUE
                  IN  <<p.tok>> \o WordPieceFrom(w, end)

\* tokenizer.tokenize(word): a word with an unmatched part is one "[UNK]".
tokenize(w) ==
    LET pieces == WordPieceFrom(w, 0)
    IN  IF \E i \in 1..Len(pieces) : pieces[i] = "[UNK]" THEN <<"[UNK]">> ELSE pieces

\* labels = ["O"] * len(text): one str per input string; iterating the str
\* "O" in zip(t.split(), t_labels) yields its single character "O".
DefaultLabels(text) == [i \in 1..Len(text) |-> <<"O">>]

WordLabels_KeepsTag(sub_words, tag, trailing_piece_tag) ==
    [count \in 1..Len(sub_words) |-> tag]

\* The inner loop for one word: the tag at the first piece, trailing_piece_tag
\* at the later ones.
WordLabels(sub_words, tag, trailing_piece_tag) ==
    [count \in 1..Len(sub_words) |-> IF count > 1 THEN trailing_piece_tag ELSE tag]

\* new_labels.append(tag); tokens.append(sub_word) for the pieces of one word,
\* ahead of what the later words append.
AppendWord(sub_words, tag, trailing_piece_tag, rest) ==
    [tokens |-> sub_words \o rest.tokens,
     new_labels |-> WordLabels(sub_words, tag, trailing_piece_tag) \o rest.new_labels]

\* for word, tag in zip(t.split(), t_labels): zip stops at the shorter list.
RECURSIVE ExpandWords(_, _, _, _)
ExpandWords(words, t_labels, j, trailing_piece_tag) ==
    IF j > Min(Len(words), Len(t_labels))
    THEN [tokens |-> <<>>, new_labels |-> <<>>]
    ELSE AppendWord(tokenize(words[j]), t_labels[j], trailing_piece_tag,
                    ExpandWords(words, t_labels, j + 1, trailing_piece_tag))

\* [label != trailing_piece_tag for label in new_labels]
TrailingTokenMask(new_labels, trailing_piece_tag) ==
    [i \in 1..Len(new_labels) |-> new_labels[i] # trailing_piece_tag]

\* if label_map: (None and the empty dict are both false)
Truthy(label_map) == ~label_map.none /\ DOMAIN label_map.val # {}

\* One iteration of the loop over zip(text, labels), after its inner loop
\* has produced e = (tokens, new_labels).
NerRowOf(e, max_len, label_map, trailing_piece_tag) ==
    LET long == Len(e.tokens) > max_len
        tokens == IF long THEN PySliceTo(e.tokens, max_len) ELSE e.tokens
        cut_labels == IF long THEN PySliceTo(e.new_labels, max_len) ELSE e.new_labels
        ids == convert_tokens_to_ids(tokens)
        padding == PyRepeat(0, max_len - Len(ids))
        new_labels == cut_labels \o PyRepeat("O", max_len - Len(ids))
        key_error == Truthy(label_map)
                     /\ \E i \in 1..Len(new_labels) : new_labels[i] \notin DOMAIN label_map.val
    IN  [input_ids |-> ids \o padding,
         input_mask |-> PyRepeat(1, Len(ids)) \o padding,
         trailing_token_mask |-> TrailingTokenMask(new_labels, trailing_piece_tag),
         key_error |-> key_error,
         label_ids |-> IF Truthy(label_map) /\ ~key_error
                       THEN [i \in 1..Len(new_labels) |-> label_map.val[new_labels[i]]]
                       ELSE new_labels]

NerRow(t, t_labels, max_len, label_map, trailing_piece_tag) ==
    CHOOSE row \in {NerRowOf(e, max_len, label_map, trailing_piece_tag) :
                       e \in {ExpandWords(split(t), t_labels, 1, trailing_piece_tag)}} : TRUE

NerChars == {" ", "a", "b"}
NerTexts == UNION {[1..n -> NerChars] : n \in 0..MaxTextLen}
Tags == {"O", "B", "X"}
TagLists == UNION {[1..n -> Tags] : n \in 0..MaxLabels}
\* labels=None, labels=[] and one tag list for the input string
LabelChoices ==
    {[none |-> TRUE, val |-> <<>>], [none |-> FALSE, val |-> <<>>]}
    \cup {[none |-> FALSE, val |-> <<tl>>] : tl \in TagLists}
FullLabelMap == [l \in {"O", "B", "X"} |-> CASE l = "O" -> 0 [] l = "B" -> 1 [] l = "X" -> 2]
LabelMapChoices ==
    {[none |-> TRUE, val |-> <<>>],
     [none |-> FALSE, val |-> <<>>],
     [none |-> FALSE, val |-> FullLabelMap],
     [none |-> FALSE, val |-> [l \in {"B", "X"} |-> FullLabelMap[l]]]}
NerMaxLenChoices == (1..MaxLen) \cup {BERT_MAX_LEN + 1}

NerInit ==
    /\ ner_pc = "call"
    /\ ner_text \in {<<t>> : t \in NerTexts}
    /\ ner_max_len \in NerMaxLenChoices
    /\ ner_labels \in LabelChoices
    /\ ner_label_map \in LabelMapChoices
    /\ ner_trailing_piece_tag \in {"X", "O"}
    /\ ner_result = <<>>
    /\ ner_exc = ""
    /\ post_remove = FALSE
    /\ post_mask_given = FALSE
    /\ post_result = <<>>
    /\ ClsIdle
    /\ DlIdle
    /\ ExtIdle

NerFrame == UNCHANGED <<ner_text, ner_max_len, ner_labels, ner_label_map,
                        ner_trailing_piece_tag>>

\* max_len > BERT_MAX_LEN: the branch assigns max_len and then looks up the
\* global name logger, which bert/common.py never binds.
preprocess_ner_tokens_NameError ==
    /\ ner_pc = "call"
    /\ ner_max_len > BERT_MAX_LEN
    /\ "logger" \notin CommonModuleNames
    /\ ner_pc' = "raised"
    /\ ner_exc' = "NameError"
    /\ UNCHANGED <<ner_result, post_remove, post_mask_given, post_result>>
    /\ NerFrame
    /\ UNCHANGED <<cls_vars, dl_vars, ext_vars>>

LabelAvailable_AfterDefault(labels) == TRUE

\* label_available = labels is not None, taken before labels is defaulted
LabelAvailable(labels) == ~labels.none

NerRows(max_len) ==
    LET labels == IF ~ner_labels.none THEN ner_labels.val ELSE DefaultLabels(ner_text)
    IN  [r \in 1..Min(Len(ner_text), Len(labels)) |->
            NerRow(ner_text[r], labels[r], max_len, ner_label_map, ner_trailing_piece_tag)]

preprocess_ner_tokens ==
    /\ ner_pc = "call"
    /\ ner_max_len > BERT_MAX_LEN => "logger" \in CommonModuleNames
    /\ \E rows \in {NerRows(ClampMaxLen(ner_max_len))} :
          IF \E r \in 1..Len(rows) : rows[r].key_error
          THEN /\ ner_pc' = "raised"
               /\ ner_exc' = "KeyError"
               /\ UNCHANGED ner_result
          ELSE /\ ner_pc' = "returned"
               /\ ner_exc' = ""
               /\ ner_result' =
                    LET n == Len(rows)
                        input_ids_all == [r \in 1..n |-> rows[r].input_ids]
                        input_mask_all == [r \in 1..n |-> rows[r].input_mask]
                        trailing_token_mask_all == [r \in 1..n |-> rows[r].trailing_token_mask]
                        label_ids_all == [r \in 1..n |-> rows[r].label_ids]
                    IN  IF LabelAvailable(ner_labels)
                        THEN <<input_ids_all, input_mask_all, trailing_token_mask_all,
                               label_ids_all>>
                        ELSE <<input_ids_all, input_mask_all, trailing_token_mask_all>>
    /\ UNCHANGED <<post_remove, post_mask_given, post_result>>
    /\ NerFrame
    /\ UNCHANGED <<cls_vars, dl_vars, ext_vars>>

(***************************************************************************)
(* postprocess_token_labels                                                *)
(***************************************************************************)
\* [x for x, keep in zip(xs, flags) if keep]
RECURSIVE ZipFilterFrom(_, _, _)
ZipFilterFrom(xs, keep, i) ==
    IF i > Min(Len(xs), Len(keep)) THEN <<>>
    ELSE (IF keep[i] THEN <<xs[i]>> ELSE <<>>) \o ZipFilterFrom(xs, keep, i + 1)

StripPadding_TakesLeadingLabels(xs, mask_list) ==
    SubSeq(xs, 1, Min(Len(xs), Cardinality({i \in 1..Len(mask_list) : mask_list[i] = 1})))

StripPadding_KeepsAll(xs, mask_list) == xs

\* [x for x, mask in zip(xs, mask_list) if mask == 1]
StripPadding(xs, mask_list) ==
    ZipFilterFrom(xs, [i \in 1..Len(mask_list) |-> mask_list[i] = 1], 1)

\* {v: k for k, v in label_map.items()}
ReversedLabelMap(m) ==
    [v \in {m[k] : k \in DOMAIN m} |-> CHOOSE k \in DOMAIN m : m[k] = v]

\* remove stands for remove_trailing_word_pieces; mask_given for
\* trailing_token_mask is not None.
postprocess(labels, input_mask, label_map, remove, mask_given, trailing_token_mask) ==
    LET rev == ReversedLabelMap(label_map.val)
        labels_org ==
            IF Truthy(label_map)
            THEN [r \in 1..Len(labels) |->
                    [i \in 1..Len(labels[r]) |-> rev[labels[r][i]]]]
            ELSE labels
        nrows == Min(Len(labels_org), Len(input_mask))
        labels_org_no_padding ==
            [r \in 1..nrows |-> StripPadding(labels_org[r], input_mask[r])]
    IN  IF remove /\ mask_given /\ Len(trailing_token_mask) > 0
        THEN LET token_mask_no_padding ==
                     [r \in 1..Min(Len(trailing_token_mask), Len(input_mask)) |->
                         StripPadding(trailing_token_mask[r], input_mask[r])]
             IN  [r \in 1..Min(nrows, Len(token_mask_no_padding)) |->
                     ZipFilterFrom(labels_org_no_padding[r], token_mask_no_padding[r], 1)]
        ELSE labels_org_no_padding

\* The caller hands the rows preprocess_ner_tokens returned, with the same
\* label_map, to postprocess_token_labels.
postprocess_token_labels ==
    /\ ner_pc = "returned"
    /\ Len(ner_result) = 4
    /\ \E remove_trailing_word_pieces \in BOOLEAN, mask_given \in BOOLEAN :
          /\ post_remove' = remove_trailing_word_pieces
          /\ post_mask_given' = mask_given
          /\ post_result' = postprocess(ner_result[4], ner_result[2], ner_label_map,
                                        remove_trailing_word_pieces, mask_given,
                                        ner_result[3])
    /\ ner_pc' = "post"
    /\ UNCHANGED <<ner_result, ner_exc>>
    /\ NerFrame
    /\ UNCHANGED <<cls_vars, dl_vars, ext_vars>>

NerNext ==
    \/ preprocess_ner_tokens_NameError
    \/ preprocess_ner_tokens
    \/ postprocess_token_labels

SpecNer == NerInit /\ [][NerNext]_vars

(***************************************************************************)
(* create_data_loader                                                      *)
(***************************************************************************)
\* TensorDataset(input_ids_tensor, input_mask_tensor[, label_ids_tensor]):
\* row i is the tuple of the i-th rows; label_ids joins only if it is true
\* (neither None nor empty).
TensorDataset(input_ids, input_mask, label_ids) ==
    [i \in 1..Len(input_ids) |->
        IF ~label_ids.none /\ Len(label_ids.val) > 0
        THEN <<input_ids[i], input_mask[i], label_ids.val[i]>>
        ELSE <<input_ids[i], input_mask[i]>>]

\* Keys of name_to_sampler_class.
SamplerNames == {"random", "sequential", "distributed"}

InvalidMessage_WithoutValue(sample_method) ==
    <<"Invalid sample_method value", ", accepted values are: ",
      "random", ", ", "sequential", ", and ", "distributed">>

\* "Invalid sample_method value: {}, accepted values are: random, sequential,
\* and distributed".format(sample_method), as the pieces of the string.
InvalidMessage(sample_method) ==
    <<"Invalid sample_method value: ", sample_method, ", accepted values are: ",
      "random", ", ", "sequential", ", and ", "distributed">>

Perms(n) == {f \in [1..n -> 1..n] : \A i, j \in 1..n : f[i] = f[j] => i = j}

\* What iterating the sampler yields: SequentialSampler iter(range(n));
\* RandomSampler a fresh permutation; DistributedSampler the rank's share of
\* its epoch permutation, wrapped around to a multiple of num_replicas.
DistributedIndices(perm, num_replicas, rank) ==
    LET n == Len(perm)
        num_samples == (n + num_replicas - 1) \div num_replicas
        total_size == num_samples * num_replicas
        indices == perm \o SubSeq(perm, 1, total_size - n)
    IN  [k \in 1..num_samples |-> indices[rank + (k - 1) * num_replicas + 1]]

SamplerOrders_WithReplacement(sampler, n) ==
    IF sampler.kind = "sequential" THEN {[i \in 1..n |-> i]}
    ELSE IF sampler.kind = "random" THEN [1..n -> 1..n]
    ELSE {DistributedIndices(sampler.perm, sampler.num_replicas, sampler.rank)}

SamplerOrders_Reversed(sampler, n) ==
    IF sampler.kind = "sequential" THEN {[i \in 1..n |-> n + 1 - i]}
    ELSE IF sampler.kind = "random" THEN Perms(n)
    ELSE {DistributedIndices(sampler.perm, sampler.num_replicas, sampler.rank)}

SamplerOrders(sampler, n) ==
    IF sampler.kind = "sequential" THEN {[i \in 1..n |-> i]}
    ELSE IF sampler.kind = "random" THEN Perms(n)
    ELSE {DistributedIndices(sampler.perm, sampler.num_replicas, sampler.rank)}

DlRowChoices == {<<7>>, <<8>>}
DlSampleMethods == SamplerNames \cup {"bogus", "Random"}
DlDistChoices ==
    {[world |-> 0, rank |-> 0], [world |-> 1, rank |-> 0],
     [world |-> 2, rank |-> 0], [world |-> 2, rank |-> 1]}

DlInit ==
    /\ dl_pc = "call"
    /\ \E n \in 1..MaxRows :
          /\ dl_input_ids \in [1..n -> DlRowChoices]
          /\ dl_input_mask = [i \in 1..n |-> <<1>>]
          /\ dl_label_ids \in {[none |-> TRUE, val |-> <<>>],
                               [none |-> FALSE, val |-> [i \in 1..n |-> <<0>>]]}
    /\ dl_sample_method \in DlSampleMethods
    /\ dl_batch_size \in 1..MaxBatchSize
    /\ dl_dist \in DlDistChoices
    /\ dl_tensor_data = <<>>
    /\ dl_sampler = NoSampler
    /\ dl_exc = NoExc
    /\ dl_order = <<>>
    /\ dl_pos = 0
    /\ dl_cur = <<>>
    /\ dl_last = <<>>
    /\ dl_prev = <<>>
    /\ ClsIdle
    /\ NerIdle
    /\ ExtIdle

DlArgs == <<dl_input_ids, dl_input_mask, dl_label_ids, dl_sample_method,
            dl_batch_size, dl_dist>>

\* except KeyError: raise ValueError(...)
create_data_loader_ValueError ==
    /\ dl_pc = "call"
    /\ dl_sample_method \notin SamplerNames
    /\ dl_pc' = "raised"
    /\ dl_exc' = [type |-> "ValueError", msg |-> InvalidMessage(dl_sample_method)]
    /\ UNCHANGED <<dl_tensor_data, dl_sampler, dl_order, dl_pos, dl_cur, dl_last, dl_prev>>
    /\ UNCHANGED DlArgs
    /\ UNCHANGED <<cls_vars, ner_vars, ext_vars>>

\* DistributedSampler(tensor_data) asks the default process group for the
\* world size and rank; without a process group that raises, and the error
\* is no KeyError, so it leaves create_data_loader as it is.
create_data_loader_NoProcessGroup ==
    /\ dl_pc = "call"
    /\ dl_sample_method = "distributed"
    /\ dl_dist.world = 0
    /\ dl_pc' = "raised"
    /\ dl_exc' = [type |-> "RuntimeError", msg |-> <<>>]
    /\ UNCHANGED <<dl_tensor_data, dl_sampler, dl_order, dl_pos, dl_cur, dl_last, dl_prev>>
    /\ UNCHANGED DlArgs
    /\ UNCHANGED <<cls_vars, ner_vars, ext_vars>>

create_data_loader ==
    /\ dl_pc = "call"
    /\ dl_sample_method \in SamplerNames
    /\ dl_sample_method = "distributed" => dl_dist.world > 0
    /\ dl_tensor_data' = TensorDataset(dl_input_ids, dl_input_mask, dl_label_ids)
    /\ IF dl_sample_method = "distributed"
       THEN \E perm \in Perms(Len(dl_input_ids)) :
               dl_sampler' = [kind |-> "distributed", perm |-> perm,
                              num_replicas |-> dl_dist.world, rank |-> dl_dist.rank]
       ELSE dl_sampler' = [NoSampler EXCEPT !.kind = dl_sample_method]
    /\ dl_pc' = "loader"
    /\ UNCHANGED <<dl_exc, dl_order, dl_pos, dl_cur, dl_last, dl_prev>>
    /\ UNCHANGED DlArgs
    /\ UNCHANGED <<cls_vars, ner_vars, ext_vars>>

\* The batch sampler takes batch_size indices, or what is left (drop_last is
\* False by default).
BatchEnd(pos, batch_size, n) == Min(pos + batch_size, n)

\* iter(loader): a new pass starts with a fresh index order from the sampler.
DataLoaderIter ==
    /\ dl_pc = "loader"
    /\ dl_order' \in SamplerOrders(dl_sampler, Len(dl_tensor_data))
    /\ dl_pos' = 0
    /\ dl_cur' = <<>>
    /\ dl_prev' = dl_last
    /\ dl_last' = <<>>
    /\ dl_pc' = "iter"
    /\ UNCHANGED <<dl_tensor_data, dl_sampler, dl_exc>>
    /\ UNCHANGED DlArgs
    /\ UNCHANGED <<cls_vars, ner_vars, ext_vars>>

\* next(iterator): the rows of the next batch_size indices, collated.
DataLoaderNextBatch ==
    /\ dl_pc = "iter"
    /\ dl_pos < Len(dl_order)
    /\ LET end == BatchEnd(dl_pos, dl_batch_size, Len(dl_order))
       IN  /\ dl_cur' = Append(dl_cur, [k \in 1..(end - dl_pos) |->
                                           dl_tensor_data[dl_order[dl_pos + k]]])
           /\ dl_pos' = end
    /\ UNCHANGED <<dl_tensor_data, dl_sampler, dl_exc, dl_order, dl_last, dl_prev, dl_pc>>
    /\ UNCHANGED DlArgs
    /\ UNCHANGED <<cls_vars, ner_vars, ext_vars>>

\* next(iterator) raises StopIteration: the pass is complete.
DataLoaderStopIteration ==
    /\ dl_pc = "iter"
    /\ dl_pos = Len(dl_order)
    /\ dl_last' = dl_cur
    /\ dl_cur' = <<>>
    /\ dl_pc' = "loader"
    /\ UNCHANGED <<dl_tensor_data, dl_sampler, dl_exc, dl_order, dl_pos, dl_prev>>
    /\ UNCHANGED DlArgs
    /\ UNCHANGED <<cls_vars, ner_vars, ext_vars>>

DlNext ==
    \/ create_data_loader_ValueError
    \/ create_data_loader_NoProcessGroup
    \/ create_data_loader
    \/ DataLoaderIter
    \/ DataLoaderNextBatch
    \/ DataLoaderStopIteration

SpecLoader == DlInit /\ [][DlNext]_vars

(***************************************************************************)
(* Classifier wrappers: construction                                       *)
(*   BERTTokenClassifier(BERTModelWrapper)    (bert/token_classification)  *)
(*   XLNetSequenceClassifier          (models/xlnet/sequence_classification)*)
(* The pretrained model is an opaque handle: its parameters are counted by *)
(* the updates applied to them (wr_weights) and the state of their .grad   *)
(* (wr_grad).                                                              *)
(***************************************************************************)
MaxFitRows == 2       \* most rows handed to fit and predict
MaxFitBatch == 2      \* largest batch_size of fit and predict
MaxEpochs == 2        \* largest num_epochs
MaxCalls == 2         \* most fit / predict calls made on one instance

not_wr_vars == <<cls_vars, ner_vars, dl_vars, dn_vars, se_vars, pp_vars>>

\* Names bound at module level in bert/token_classification.py.
TokenModuleNames ==
    {"np", "tqdm", "trange", "BertAdam", "BertForTokenClassification", "torch",
     "nn", "Language", "create_data_loader", "BERTModelWrapper", "get_device",
     "move_to_device", "BERTTokenClassifier", "postprocess_token_labels"}

NumLabelsChoices == {0, 1, 2}

\* Constructor arguments: language and cache_dir at their defaults;
\* XLNetSequenceClassifier also takes batch_size and num_epochs.
WrArgChoices(class) ==
    IF class = "BERTTokenClassifier"
    THEN {[language |-> "Language.ENGLISH", num_labels |-> k, cache_dir |-> ".",
           batch_size |-> 0, num_epochs |-> 0] : k \in NumLabelsChoices}
    ELSE {[language |-> "Language.ENGLISHCASED", num_labels |-> k, cache_dir |-> ".",
           batch_size |-> b, num_epochs |-> e] :
              k \in NumLabelsChoices, b \in 1..MaxFitBatch, e \in 0..MaxEpochs}

\* self.name = value
SetAttr(self, name, value) ==
    [a \in (DOMAIN self) \cup {name} |-> IF a = name THEN value ELSE self[a]]

\* The three assignments of BERTModelWrapper.__init__ before _load_model.
BERTModelWrapperAttrs(args) ==
    SetAttr(SetAttr(SetAttr(<<>>, "language", args.language),
                    "num_labels", args.num_labels),
            "cache_dir", args.cache_dir)

\* BertForTokenClassification.from_pretrained(name, cache_dir=.., num_labels=..)
BertForTokenClassification(name, cache_dir, num_labels) ==
    [class |-> "BertForTokenClassification", name |-> name,
     cache_dir |-> cache_dir, num_labels |-> num_labels]

\* BERTTokenClassifier._load_model: its only local name is self, so language,
\* cache_dir and num_labels are looked up as globals of the module.
BERTTokenClassifier_load_model(self) ==
    IF \E name \in {"language", "cache_dir", "num_labels"} : name \notin TokenModuleNames
    THEN [exc |-> "NameError", model |-> <<>>]
    ELSE [exc |-> "",
          model |-> BertForTokenClassification("global language", "global cache_dir",
                                               "global num_labels")]

\* An instance in the state BERTModelWrapper.__init__ leaves when _load_model
\* returns a model built from the instance's attributes (the state a subclass
\* with a working _load_model reaches); fit and predict are methods of it.
BERTConstructed(args) ==
    SetAttr(BERTModelWrapperAttrs(args), "model",
            BertForTokenClassification(args.language, args.cache_dir, args.num_labels))

WrInit ==
    /\ wr_class \in {"BERTTokenClassifier", "XLNetSequenceClassifier"}
    /\ wr_args \in WrArgChoices(wr_class)
    /\ \/ /\ wr_pc = "new"
          /\ wr_self = <<>>
          /\ wr_loaded = <<>>
       \/ /\ wr_class = "BERTTokenClassifier"
          /\ wr_args.num_labels >= 2
          /\ wr_pc = "Constructed"
          /\ wr_self = BERTConstructed(wr_args)
          /\ wr_loaded = <<"BertForTokenClassification.from_pretrained">>
    /\ wr_exc = ""
    /\ wr_calls = 0
    /\ wr_weights = 0
    /\ wr_grad = "absent"
    /\ wr_fit = NoFit
    /\ wr_pred = NoPred
    /\ ClsIdle
    /\ NerIdle
    /\ DlIdle
    /\ DnIdle
    /\ SeIdle
    /\ PpIdle

\* What a constructor that raises leaves untouched.
WrModelFrame == UNCHANGED <<wr_class, wr_args, wr_calls, wr_weights, wr_grad,
                            wr_fit, wr_pred>>

BERTModelWrapper_TooFewLabels_OnlyBelowOne(num_labels) == num_labels < 1

\* if num_labels < 2:
BERTModelWrapper_TooFewLabels(num_labels) == num_labels < 2

\* BERTModelWrapper.__init__, num_labels < 2: raise ValueError(...)
BERTModelWrapper_init_ValueError ==
    /\ wr_pc = "new"
    /\ wr_class = "BERTTokenClassifier"
    /\ BERTModelWrapper_TooFewLabels(wr_args.num_labels)
    /\ wr_pc' = "raised"
    /\ wr_exc' = "ValueError"
    /\ UNCHANGED <<wr_self, wr_loaded>>
    /\ WrModelFrame
    /\ UNCHANGED not_wr_vars

\* BERTModelWrapper.__init__ past the check: three attributes, then
\* self.model = self._load_model(), whose exception leaves the constructor.
BERTModelWrapper_init ==
    /\ wr_pc = "new"
    /\ wr_class = "BERTTokenClassifier"
    /\ ~BERTModelWrapper_TooFewLabels(wr_args.num_labels)
    /\ \E self \in {BERTModelWrapperAttrs(wr_args)} :
       \E loaded \in {BERTTokenClassifier_load_model(self)} :
          IF loaded.exc # ""
          THEN /\ wr_pc' = "raised"
               /\ wr_exc' = loaded.exc
               /\ wr_self' = self
               /\ wr_loaded' = wr_loaded
          ELSE /\ wr_pc' = "Constructed"
               /\ wr_exc' = ""
               /\ wr_self' = SetAttr(self, "model", loaded.model)
               /\ wr_loaded' = Append(wr_loaded, "BertForTokenClassification.from_pretrained")
    /\ WrModelFrame
    /\ UNCHANGED not_wr_vars

XLNet_TooFewLabels(num_labels) == num_labels < 2

\* XLNetSequenceClassifier.__init__, num_labels < 2: raise ValueError(...)
XLNetSequenceClassifier_init_ValueError ==
    /\ wr_pc = "new"
    /\ wr_class = "XLNetSequenceClassifier"
    /\ XLNet_TooFewLabels(wr_args.num_labels)
    /\ wr_pc' = "raised"
    /\ wr_exc' = "ValueError"
    /\ UNCHANGED <<wr_self, wr_loaded>>
    /\ WrModelFrame
    /\ UNCHANGED not_wr_vars

\* XLNetConfig.from_pretrained(self.language.value, num_labels=.., cache_dir=..)
XLNetConfig(name, num_labels, cache_dir) ==
    [class |-> "XLNetConfig", name |-> name, num_labels |-> num_labels,
     cache_dir |-> cache_dir]

\* The attribute assignments of XLNetSequenceClassifier.__init__, in order;
\* the arguments that are not varied keep their defaults.
XLNetAttrs(args) ==
    LET a1 == SetAttr(<<>>, "language", args.language)
        a2 == SetAttr(a1, "num_labels", args.num_labels)
        a3 == SetAttr(a2, "cache_dir", args.cache_dir)
        a4 == SetAttr(a3, "num_gpus", "None")
        a5 == SetAttr(a4, "num_epochs", args.num_epochs)
        a6 == SetAttr(a5, "batch_size", args.batch_size)
        a7 == SetAttr(a6, "lr", "5e-5")
        a8 == SetAttr(a7, "adam_eps", "1e-8")
        a9 == SetAttr(a8, "warmup_steps", 0)
        a10 == SetAttr(a9, "weight_decay", "0.0")
        a11 == SetAttr(a10, "max_grad_norm", "1.0")
        a12 == SetAttr(a11, "config",
                       XLNetConfig(a11["language"], args.num_labels, args.cache_dir))
    IN  SetAttr(a12, "model",
                [class |-> "XLNetForSequenceClassification", config |-> a12["config"]])

\* XLNetSequenceClassifier.__init__ past the check.
XLNetSequenceClassifier_init ==
    /\ wr_pc = "new"
    /\ wr_class = "XLNetSequenceClassifier"
    /\ ~XLNet_TooFewLabels(wr_args.num_labels)
    /\ wr_self' = XLNetAttrs(wr_args)
    /\ wr_loaded' = Append(wr_loaded, "XLNetConfig.from_pretrained")
    /\ wr_pc' = "Constructed"
    /\ wr_exc' = ""
    /\ WrModelFrame
    /\ UNCHANGED not_wr_vars


(***************************************************************************)
(* BERTTokenClassifier.fit and predict                                     *)
(* Calls into torch, numpy and the optimizer are modelled by their results.*)
(***************************************************************************)
\* What no method of a wrapper assigns after construction.
WrIdentity == UNCHANGED <<wr_class, wr_args, wr_self, wr_loaded>>

move_to_device_FreshModel(weights) == 0

\* self.model = move_to_device(self.model, device, num_gpus): the same model,
\* placed on the device, is assigned back.
move_to_device(weights) == weights

ZeroGrad_KeepsGradients(grad) == grad

\* optimizer.zero_grad() sets the .grad of a parameter to zero where there is one.
ZeroGrad(grad) == IF grad = "absent" THEN "absent" ELSE "zero"

\* int(len(token_ids) / batch_size) * num_epochs
NumTrainOptimizationSteps(n, batch_size, num_epochs) == (n \div batch_size) * num_epochs

\* _get_optimizer: BertAdam without a schedule (t_total keeps its default -1)
\* when warmup_proportion is None, else with t_total=num_train_optimization_steps.
OptimizerTotal(warmup, num_train_optimization_steps) ==
    IF warmup THEN num_train_optimization_steps ELSE -1

\* fit, from the call to the head of the epoch loop: the loader, the device,
\* the optimizer, self.model.train().
BERTTokenClassifier_fit ==
    /\ wr_pc = "Constructed"
    /\ wr_class = "BERTTokenClassifier"
    /\ wr_calls < MaxCalls
    /\ \E n \in 0..MaxFitRows, batch_size \in 1..MaxFitBatch,
          num_epochs \in 0..MaxEpochs, warmup \in BOOLEAN :
          wr_fit' = [NoFit EXCEPT !.n = n, !.batch_size = batch_size,
                        !.num_epochs = num_epochs, !.warmup = warmup,
                        !.t_total = OptimizerTotal(warmup,
                            NumTrainOptimizationSteps(n, batch_size, num_epochs))]
    /\ wr_calls' = wr_calls + 1
    /\ wr_exc' = ""
    /\ wr_pred' = NoPred
    /\ wr_pc' = "epoch"
    /\ wr_weights' = move_to_device(wr_weights)
    /\ UNCHANGED wr_grad
    /\ WrIdentity
    /\ UNCHANGED not_wr_vars

\* for _ in trange(int(num_epochs)): one more epoch; tr_loss = 0,
\* nb_tr_steps = 0, and the inner for statement opens a pass over the loader.
BERTTokenClassifier_fit_epoch ==
    /\ wr_pc = "epoch"
    /\ wr_class = "BERTTokenClassifier"
    /\ wr_fit.epoch < wr_fit.num_epochs
    /\ \E order \in SamplerOrders([NoSampler EXCEPT !.kind = "random"], wr_fit.n) :
          wr_fit' = [wr_fit EXCEPT !.order = order, !.pos = 0, !.nb_tr_steps = 0]
    /\ wr_pc' = "batch"
    /\ UNCHANGED <<wr_exc, wr_calls, wr_weights, wr_grad, wr_pred>>
    /\ WrIdentity
    /\ UNCHANGED not_wr_vars

\* The epoch loop is exhausted: fit returns None and its locals are dropped.
BERTTokenClassifier_fit_return ==
    /\ wr_pc = "epoch"
    /\ wr_class = "BERTTokenClassifier"
    /\ wr_fit.epoch >= wr_fit.num_epochs
    /\ wr_fit' = [wr_fit EXCEPT !.order = <<>>, !.pos = 0, !.events = <<>>]
    /\ wr_pc' = "Constructed"
    /\ UNCHANGED <<wr_exc, wr_calls, wr_weights, wr_grad, wr_pred>>
    /\ WrIdentity
    /\ UNCHANGED not_wr_vars

\* The loader yields the next batch; loss = self.model(...).
BERTTokenClassifier_fit_forward ==
    /\ wr_pc = "batch"
    /\ wr_class = "BERTTokenClassifier"
    /\ wr_fit.pos < Len(wr_fit.order)
    /\ wr_fit' = [wr_fit EXCEPT
                    !.pos = BatchEnd(wr_fit.pos, wr_fit.batch_size, Len(wr_fit.order)),
                    !.events = <<"forward">>]
    /\ wr_pc' = "backward"
    /\ UNCHANGED <<wr_exc, wr_calls, wr_weights, wr_grad, wr_pred>>
    /\ WrIdentity
    /\ UNCHANGED not_wr_vars

\* loss.backward(); tr_loss += loss.item(); nb_tr_steps += 1
BERTTokenClassifier_fit_backward ==
    /\ wr_pc = "backward"
    /\ wr_class = "BERTTokenClassifier"
    /\ wr_grad' = "accumulated"
    /\ wr_fit' = [wr_fit EXCEPT !.nb_tr_steps = @ + 1,
                                !.events = Append(@, "backward")]
    /\ wr_pc' = "step"
    /\ UNCHANGED <<wr_exc, wr_calls, wr_weights, wr_pred>>
    /\ WrIdentity
    /\ UNCHANGED not_wr_vars

\* optimizer.step()
BERTTokenClassifier_fit_step ==
    /\ wr_pc = "step"
    /\ wr_class = "BERTTokenClassifier"
    /\ wr_weights' = wr_weights + 1
    /\ wr_fit' = [wr_fit EXCEPT !.steps = @ + 1, !.events = Append(@, "step")]
    /\ wr_pc' = "zero_grad"
    /\ UNCHANGED <<wr_exc, wr_calls, wr_grad, wr_pred>>
    /\ WrIdentity
    /\ UNCHANGED not_wr_vars

\* optimizer.zero_grad(), then back to the head of the batch loop.
BERTTokenClassifier_fit_zero_grad ==
    /\ wr_pc = "zero_grad"
    /\ wr_class = "BERTTokenClassifier"
    /\ wr_grad' = ZeroGrad(wr_grad)
    /\ wr_fit' = [wr_fit EXCEPT !.events = Append(@, "zero_grad")]
    /\ wr_pc' = "batch"
    /\ UNCHANGED <<wr_exc, wr_calls, wr_weights, wr_pred>>
    /\ WrIdentity
    /\ UNCHANGED not_wr_vars

\* The pass is over: train_loss = tr_loss / nb_tr_steps; print(...).
BERTTokenClassifier_fit_epoch_end ==
    /\ wr_pc = "batch"
    /\ wr_class = "BERTTokenClassifier"
    /\ wr_fit.pos >= Len(wr_fit.order)
    /\ IF wr_fit.nb_tr_steps = 0
       THEN /\ wr_exc' = "ZeroDivisionError"
            /\ wr_pc' = "Constructed"
            /\ wr_fit' = [wr_fit EXCEPT !.order = <<>>, !.pos = 0, !.events = <<>>]
       ELSE /\ wr_exc' = wr_exc
            /\ wr_pc' = "epoch"
            /\ wr_fit' = [wr_fit EXCEPT !.epoch = @ + 1]
    /\ UNCHANGED <<wr_calls, wr_weights, wr_grad, wr_pred>>
    /\ WrIdentity
    /\ UNCHANGED not_wr_vars

\* The rows handed to predict: token id rows, each with the mask <<1>>.
PredInputs == UNION {[1..n -> DlRowChoices] : n \in 0..MaxFitRows}

\* list(p) for the row's p of np.argmax(logits, axis=2): the labels the model
\* with the given parameters gives the row (eval mode: a function of the row).
TokenLabelsOf(weights, ids, mask) ==
    [argmax_of |-> "logits", weights |-> weights, input_ids |-> ids,
     attention_mask |-> mask]

\* The batch loop of predict from position pos of the loader's pass.
RECURSIVE TokenPredictFrom(_, _, _, _, _, _)
TokenPredictFrom(data, order, pos, batch_size, weights, predictions) ==
    IF pos >= Len(order) THEN predictions
    ELSE LET end == BatchEnd(pos, batch_size, Len(order))
             batch == [k \in 1..(end - pos) |-> data[order[pos + k]]]
             labels == [k \in 1..Len(batch) |->
                           TokenLabelsOf(weights, batch[k][1], batch[k][2])]
         IN  TokenPredictFrom(data, order, end, batch_size, weights,
                              predictions \o labels)

\* predict: a sequential loader over the rows, self.model.eval(), the batch
\* loop under torch.no_grad(), then the read of true_label_available, which
\* only the loop body binds.
BERTTokenClassifier_predict ==
    /\ wr_pc = "Constructed"
    /\ wr_class = "BERTTokenClassifier"
    /\ wr_calls < MaxCalls
    /\ \E token_ids \in PredInputs, labels \in BOOLEAN, batch_size \in 1..MaxFitBatch :
       \E data \in {TensorDataset(token_ids, [i \in 1..Len(token_ids) |-> <<1>>],
                        [none |-> ~labels, val |-> [i \in 1..Len(token_ids) |-> <<0>>]])} :
       \E order \in SamplerOrders([NoSampler EXCEPT !.kind = "sequential"], Len(data)) :
          /\ wr_pred' = [NoPred EXCEPT !.token_ids = token_ids, !.labels = labels,
                            !.batch_size = batch_size,
                            !.result = IF Len(order) = 0 THEN <<>>
                                       ELSE TokenPredictFrom(data, order, 0, batch_size,
                                                             wr_weights, <<>>)]
          /\ wr_exc' = IF Len(order) = 0 THEN "UnboundLocalError" ELSE ""
    /\ wr_calls' = wr_calls + 1
    /\ wr_fit' = NoFit
    /\ wr_weights' = move_to_device(wr_weights)
    /\ UNCHANGED <<wr_pc, wr_grad>>
    /\ WrIdentity
    /\ UNCHANGED not_wr_vars


(***************************************************************************)
(* XLNetSequenceClassifier.fit and predict                                 *)
(***************************************************************************)
\* len(train_dataloader): batches in one pass (drop_last is False).
NumBatches(n, batch_size) == (n + batch_size - 1) \div batch_size

\* fit, from the call to the head of the epoch loop: the dataset (with
\* token_type_ids only if that list is true), sampler and loader, AdamW and
\* the schedule sized num_batches * self.num_epochs, self.model.train(),
\* optimizer.zero_grad().
XLNetSequenceClassifier_fit ==
    /\ wr_pc = "Constructed"
    /\ wr_class = "XLNetSequenceClassifier"
    /\ wr_calls < MaxCalls
    /\ \E n \in 0..MaxFitRows, token_type_ids \in BOOLEAN,
          logging_steps \in {0, 1, 2}, save_steps \in {0, 1} :
          wr_fit' = [NoFit EXCEPT !.n = n, !.batch_size = wr_self["batch_size"],
                        !.num_epochs = wr_self["num_epochs"],
                        !.token_type_ids = token_type_ids /\ n > 0,
                        !.logging_steps = logging_steps, !.save_steps = save_steps,
                        !.t_total = NumBatches(n, wr_self["batch_size"])
                                        * wr_self["num_epochs"]]
    /\ wr_grad' = ZeroGrad(wr_grad)
    /\ wr_calls' = wr_calls + 1
    /\ wr_exc' = ""
    /\ wr_pred' = NoPred
    /\ wr_pc' = "epoch"
    /\ wr_weights' = move_to_device(wr_weights)
    /\ WrIdentity
    /\ UNCHANGED not_wr_vars

\* for epoch in range(self.num_epochs): one more epoch; tr_loss = 0.0 and the
\* inner for statement opens a pass over the loader.
XLNetSequenceClassifier_fit_epoch ==
    /\ wr_pc = "epoch"
    /\ wr_class = "XLNetSequenceClassifier"
    /\ wr_fit.epoch < wr_fit.num_epochs
    /\ \E order \in SamplerOrders([NoSampler EXCEPT !.kind = "random"], wr_fit.n) :
          wr_fit' = [wr_fit EXCEPT !.order = order, !.pos = 0]
    /\ wr_pc' = "batch"
    /\ UNCHANGED <<wr_exc, wr_calls, wr_weights, wr_grad, wr_pred>>
    /\ WrIdentity
    /\ UNCHANGED not_wr_vars

\* The epoch loop is exhausted: del [x_batch, y_batch, mask_batch,
\* token_type_ids_batch], names that only the loop body binds; then
\* torch.cuda.empty_cache() and the return, which drops the loader and the
\* argument token_type_ids with the other locals.
XLNetSequenceClassifier_fit_return ==
    /\ wr_pc = "epoch"
    /\ wr_class = "XLNetSequenceClassifier"
    /\ wr_fit.epoch >= wr_fit.num_epochs
    /\ wr_exc' = IF wr_fit.bound THEN "" ELSE "UnboundLocalError"
    /\ wr_fit' = [wr_fit EXCEPT !.order = <<>>, !.pos = 0, !.events = <<>>,
                                !.token_type_ids = FALSE]
    /\ wr_pc' = "Constructed"
    /\ UNCHANGED <<wr_calls, wr_weights, wr_grad, wr_pred>>
    /\ WrIdentity
    /\ UNCHANGED not_wr_vars

\* The loader yields the next batch, the batch is unpacked;
\* outputs = self.model(...), loss = outputs[0].
XLNetSequenceClassifier_fit_forward ==
    /\ wr_pc = "batch"
    /\ wr_class = "XLNetSequenceClassifier"
    /\ wr_fit.pos < Len(wr_fit.order)
    /\ wr_fit' = [wr_fit EXCEPT
                    !.pos = BatchEnd(wr_fit.pos, wr_fit.batch_size, Len(wr_fit.order)),
                    !.bound = TRUE,
                    !.events = <<"forward">>]
    /\ wr_pc' = "backward"
    /\ UNCHANGED <<wr_exc, wr_calls, wr_weights, wr_grad, wr_pred>>
    /\ WrIdentity
    /\ UNCHANGED not_wr_vars

\* loss.sum().backward()
XLNetSequenceClassifier_fit_backward ==
    /\ wr_pc = "backward"
    /\ wr_class = "XLNetSequenceClassifier"
    /\ wr_grad' = "accumulated"
    /\ wr_fit' = [wr_fit EXCEPT !.events = Append(@, "backward")]
    /\ wr_pc' = "clip"
    /\ UNCHANGED <<wr_exc, wr_calls, wr_weights, wr_pred>>
    /\ WrIdentity
    /\ UNCHANGED not_wr_vars

\* torch.nn.utils.clip_grad_norm_(...); tr_loss += loss.sum().item()
XLNetSequenceClassifier_fit_clip ==
    /\ wr_pc = "clip"
    /\ wr_class = "XLNetSequenceClassifier"
    /\ wr_fit' = [wr_fit EXCEPT !.events = Append(@, "clip")]
    /\ wr_pc' = "step"
    /\ UNCHANGED <<wr_exc, wr_calls, wr_weights, wr_grad, wr_pred>>
    /\ WrIdentity
    /\ UNCHANGED not_wr_vars

\* scheduler.step(); optimizer.step()
XLNetSequenceClassifier_fit_step ==
    /\ wr_pc = "step"
    /\ wr_class = "XLNetSequenceClassifier"
    /\ wr_weights' = wr_weights + 1
    /\ wr_fit' = [wr_fit EXCEPT !.steps = @ + 1, !.events = Append(@, "step")]
    /\ wr_pc' = "zero_grad"
    /\ UNCHANGED <<wr_exc, wr_calls, wr_grad, wr_pred>>
    /\ WrIdentity
    /\ UNCHANGED not_wr_vars

\* optimizer.zero_grad(); global_step += 1
XLNetSequenceClassifier_fit_zero_grad ==
    /\ wr_pc = "zero_grad"
    /\ wr_class = "XLNetSequenceClassifier"
    /\ wr_grad' = ZeroGrad(wr_grad)
    /\ wr_fit' = [wr_fit EXCEPT !.global_step = @ + 1,
                                !.events = Append(@, "zero_grad")]
    /\ wr_pc' = "log"
    /\ UNCHANGED <<wr_exc, wr_calls, wr_weights, wr_pred>>
    /\ WrIdentity
    /\ UNCHANGED not_wr_vars

\* The logging branch logs the learning rate and then reads logging_loss,
\* which fit never binds before (the argument of the second log_metric call
\* is evaluated before the call, so no loss metric is logged); the checkpoint
\* branch saves the model; the progress print; then back to the head of the
\* batch loop.
XLNetSequenceClassifier_fit_log ==
    /\ wr_pc = "log"
    /\ wr_class = "XLNetSequenceClassifier"
    /\ IF wr_fit.logging_steps > 0 /\ wr_fit.global_step % wr_fit.logging_steps = 0
       THEN /\ wr_exc' = "UnboundLocalError"
            /\ wr_pc' = "Constructed"
            /\ wr_fit' = [wr_fit EXCEPT !.lr_logged = @ + 1, !.order = <<>>,
                                        !.pos = 0, !.events = <<>>,
                                        !.token_type_ids = FALSE]
       ELSE /\ wr_exc' = wr_exc
            /\ wr_pc' = "batch"
            /\ wr_fit' = [wr_fit EXCEPT !.saved =
                            IF wr_fit.save_steps > 0
                               /\ wr_fit.global_step % wr_fit.save_steps = 0
                            THEN @ + 1 ELSE @]
    /\ UNCHANGED <<wr_calls, wr_weights, wr_grad, wr_pred>>
    /\ WrIdentity
    /\ UNCHANGED not_wr_vars

\* The pass is over: on to the next epoch.
XLNetSequenceClassifier_fit_epoch_end ==
    /\ wr_pc = "batch"
    /\ wr_class = "XLNetSequenceClassifier"
    /\ wr_fit.pos >= Len(wr_fit.order)
    /\ wr_fit' = [wr_fit EXCEPT !.epoch = @ + 1]
    /\ wr_pc' = "epoch"
    /\ UNCHANGED <<wr_exc, wr_calls, wr_weights, wr_grad, wr_pred>>
    /\ WrIdentity
    /\ UNCHANGED not_wr_vars

\* The row's entry of preds.argmax(axis=1) and of the softmax of preds.
ClassOf(weights, ids, mask, segment) ==
    [argmax_of |-> "logits", weights |-> weights, input_ids |-> ids,
     attention_mask |-> mask, token_type_ids |-> segment]
ProbabilitiesOf(weights, ids, mask, segment) ==
    [softmax_of |-> "logits", weights |-> weights, input_ids |-> ids,
     attention_mask |-> mask, token_type_ids |-> segment]

\* Python's x[start:end] of a list.
PySlice(x, start, end) == SubSeq(x, start + 1, Min(end, Len(x)))

\* The loop for i in range(0, len(token_ids), batch_size) from i on; every
\* pass slices token_type_ids, which raises TypeError when it is None.
RECURSIVE XLNetPredictFrom(_, _, _, _, _, _, _)
XLNetPredictFrom(token_ids, input_mask, token_type_ids, i, batch_size, weights, preds) ==
    IF i >= Len(token_ids) THEN [exc |-> "", preds |-> preds]
    ELSE IF token_type_ids.none THEN [exc |-> "TypeError", preds |-> preds]
    ELSE LET x_batch == PySlice(token_ids, i, i + batch_size)
             mask_batch == PySlice(input_mask, i, i + batch_size)
             token_type_ids_batch == PySlice(token_type_ids.val, i, i + batch_size)
             pred_batch == [k \in 1..Len(x_batch) |->
                              <<x_batch[k], mask_batch[k], token_type_ids_batch[k]>>]
         IN  XLNetPredictFrom(token_ids, input_mask, token_type_ids, i + batch_size,
                              batch_size, weights, Append(preds, pred_batch))

\* np.concatenate(preds): the batches joined in list order; it raises
\* ValueError for an empty list.
RECURSIVE Concatenate(_)
Concatenate(preds) ==
    IF Len(preds) = 0 THEN <<>> ELSE Head(preds) \o Concatenate(Tail(preds))

\* predict: self.model.eval(), the batch loop under torch.no_grad(),
\* np.concatenate, argmax (and softmax when probabilities is set).
XLNetSequenceClassifier_predict ==
    /\ wr_pc = "Constructed"
    /\ wr_class = "XLNetSequenceClassifier"
    /\ wr_calls < MaxCalls
    /\ \E token_ids \in PredInputs, given \in BOOLEAN, batch_size \in 1..MaxFitBatch,
          probabilities \in BOOLEAN :
       \E run \in {XLNetPredictFrom(token_ids, [i \in 1..Len(token_ids) |-> <<1>>],
                       [none |-> ~given, val |-> [i \in 1..Len(token_ids) |-> <<0>>]],
                       0, batch_size, wr_weights, <<>>)} :
       \E rows \in {Concatenate(run.preds)} :
          /\ wr_exc' = IF run.exc # "" THEN run.exc
                       ELSE IF Len(run.preds) = 0 THEN "ValueError" ELSE ""
          /\ wr_pred' = [NoPred EXCEPT !.token_ids = token_ids,
                            !.token_type_ids = given, !.batch_size = batch_size,
                            !.probabilities = probabilities,
                            !.result = IF run.exc # "" THEN <<>>
                                       ELSE [k \in 1..Len(rows) |->
                                               ClassOf(wr_weights, rows[k][1],
                                                       rows[k][2], rows[k][3])],
                            !.probs = IF run.exc # "" \/ ~probabilities THEN <<>>
                                      ELSE [k \in 1..Len(rows) |->
                                              ProbabilitiesOf(wr_weights, rows[k][1],
                                                              rows[k][2], rows[k][3])]]
    /\ wr_calls' = wr_calls + 1
    /\ wr_fit' = NoFit
    /\ wr_weights' = move_to_device(wr_weights)
    /\ UNCHANGED <<wr_pc, wr_grad>>
    /\ WrIdentity
    /\ UNCHANGED not_wr_vars

WrNext ==
    \/ BERTModelWrapper_init_ValueError
    \/ BERTModelWrapper_init
    \/ BERTTokenClassifier_fit
    \/ BERTTokenClassifier_fit_epoch
    \/ BERTTokenClassifier_fit_return
    \/ BERTTokenClassifier_fit_forward
    \/ BERTTokenClassifier_fit_backward
    \/ BERTTokenClassifier_fit_step
    \/ BERTTokenClassifier_fit_zero_grad
    \/ BERTTokenClassifier_fit_epoch_end
    \/ BERTTokenClassifier_predict
    \/ XLNetSequenceClassifier_init_ValueError
    \/ XLNetSequenceClassifier_init
    \/ XLNetSequenceClassifier_fit
    \/ XLNetSequenceClassifier_fit_epoch
    \/ XLNetSequenceClassifier_fit_return
    \/ XLNetSequenceClassifier_fit_forward
    \/ XLNetSequenceClassifier_fit_backward
    \/ XLNetSequenceClassifier_fit_clip
    \/ XLNetSequenceClassifier_fit_step
    \/ XLNetSequenceClassifier_fit_zero_grad
    \/ XLNetSequenceClassifier_fit_log
    \/ XLNetSequenceClassifier_fit_epoch_end
    \/ XLNetSequenceClassifier_predict

SpecWrapper == WrInit /\ [][WrNext]_vars


(***************************************************************************)
(* maybe_download                                      (dataset/url_utils) *)
(* One target path; the server's content and the file found at the path    *)
(* before the first call are the environment's choice.                     *)
(***************************************************************************)
MaxBytes == 3           \* largest file size and expected_bytes
MaxDownloadCalls == 3   \* most maybe_download calls for the path

not_dn_vars == <<cls_vars, ner_vars, dl_vars, wr_vars, se_vars, pp_vars>>

DnInit ==
    /\ dn_file \in {NoFile} \cup {[exists |-> TRUE, size |-> b] : b \in 0..MaxBytes}
    /\ dn_calls = 0
    /\ dn_last = NoCall
    /\ dn_exc = ""
    /\ ClsIdle
    /\ NerIdle
    /\ DlIdle
    /\ WrIdle
    /\ SeIdle
    /\ PpIdle

RemoveFile_KeepsFile(file) == file

\* os.remove(filepath)
RemoveFile(file) == NoFile

\* if not os.path.exists(filepath): the body of the response is written to
\* the path; else the file is left as found.
FileAfterDownload(file, content_size) ==
    IF ~file.exists THEN [exists |-> TRUE, size |-> content_size] ELSE file

\* One call of maybe_download(url, filename, work_directory, expected_bytes).
maybe_download ==
    /\ dn_calls < MaxDownloadCalls
    /\ \E expected_bytes \in {[none |-> TRUE, val |-> 0]}
                             \cup {[none |-> FALSE, val |-> b] : b \in 0..MaxBytes},
          content_size \in 0..MaxBytes :
       \E file \in {FileAfterDownload(dn_file, content_size)} :
          /\ dn_last' = [expected_bytes |-> expected_bytes,
                         downloaded |-> ~dn_file.exists,
                         st_size |-> file.size]
          /\ IF ~expected_bytes.none /\ file.size # expected_bytes.val
             THEN /\ dn_file' = RemoveFile(file)
                  /\ dn_exc' = "IOError"
             ELSE /\ dn_file' = file
                  /\ dn_exc' = ""
    /\ dn_calls' = dn_calls + 1
    /\ UNCHANGED not_dn_vars

DnNext == maybe_download

SpecDownload == DnInit /\ [][DnNext]_vars


(***************************************************************************)
(* SentEvalRunner                                          (eval/senteval) *)
(***************************************************************************)
MaxTasks == 2         \* most tasks in a task list
MaxSeCalls == 6       \* most method calls made on one runner

not_se_vars == <<cls_vars, ner_vars, dl_vars, wr_vars, dn_vars, pp_vars>>

\* The set literal of set_params_senteval.
classifying_tasks ==
    {"MR", "CR", "SUBJ", "MPQA", "SST2", "SST5", "TREC", "SICKEntailment", "SNLI", "MRPC"}

SeTaskLists == UNION {[1..n -> {"MR", "STS12"}] : n \in 0..MaxTasks}

\* SentEvalRunner(path_to_senteval="."): the state after construction.
SeInit ==
    /\ se_self = SetAttr(<<>>, "path_to_senteval", ".")
    /\ se_last = "__init__"
    /\ se_exc = ""
    /\ se_calls = 0
    /\ se_handed = <<>>
    /\ ClsIdle
    /\ NerIdle
    /\ DlIdle
    /\ WrIdle
    /\ DnIdle
    /\ PpIdle

\* self.transfer_data_path = os.path.join(self.path_to_senteval, relative_path)
set_transfer_data_path ==
    /\ se_calls < MaxSeCalls
    /\ \E relative_path \in {"data", "data2"} :
          se_self' = SetAttr(se_self, "transfer_data_path",
                             <<se_self["path_to_senteval"], relative_path>>)
    /\ se_last' = "set_transfer_data_path"
    /\ se_exc' = ""
    /\ se_calls' = se_calls + 1
    /\ UNCHANGED se_handed
    /\ UNCHANGED not_se_vars

\* self.transfer_tasks = task_list
set_transfer_tasks ==
    /\ se_calls < MaxSeCalls
    /\ \E task_list \in SeTaskLists :
          se_self' = SetAttr(se_self, "transfer_tasks", task_list)
    /\ se_last' = "set_transfer_tasks"
    /\ se_exc' = ""
    /\ se_calls' = se_calls + 1
    /\ UNCHANGED se_handed
    /\ UNCHANGED not_se_vars

\* self.model = model
set_model ==
    /\ se_calls < MaxSeCalls
    /\ \E model \in {"model", "model2"} :
          se_self' = SetAttr(se_self, "model", model)
    /\ se_last' = "set_model"
    /\ se_exc' = ""
    /\ se_calls' = se_calls + 1
    /\ UNCHANGED se_handed
    /\ UNCHANGED not_se_vars

AnyClassifying_FirstTaskOnly(transfer_tasks) ==
    Len(transfer_tasks) > 0 /\ transfer_tasks[1] \in classifying_tasks

\* any(t in classifying_tasks for t in self.transfer_tasks)
AnyClassifying(transfer_tasks) ==
    \E i \in 1..Len(transfer_tasks) : transfer_tasks[i] \in classifying_tasks

\* The dict literal assigned to self.params_senteval.
ParamsSenteval(self, use_pytorch, kfold) ==
    [model |-> self["model"], task_path |-> self["transfer_data_path"],
     usepytorch |-> use_pytorch, kfold |-> kfold]

\* set_params_senteval with the defaults of all arguments but nhid: the dict
\* literal reads self.model and self.transfer_data_path, the condition reads
\* self.transfer_tasks; reading an attribute never assigned raises
\* AttributeError at that point.
set_params_senteval ==
    /\ se_calls < MaxSeCalls
    /\ \E nhid \in {0, 50} :
          IF ~({"model", "transfer_data_path"} \subseteq DOMAIN se_self)
          THEN /\ se_exc' = "AttributeError"
               /\ se_self' = se_self
          ELSE \E params \in {ParamsSenteval(se_self, TRUE, 10)} :
               IF "transfer_tasks" \notin DOMAIN se_self
               THEN /\ se_exc' = "AttributeError"
                    /\ se_self' = SetAttr(se_self, "params_senteval", params)
               ELSE /\ se_exc' = ""
                    /\ se_self' = SetAttr(se_self, "params_senteval",
                          IF AnyClassifying(se_self["transfer_tasks"])
                          THEN SetAttr(params, "classifier",
                                       [nhid |-> nhid, optim |-> "adam", batch_size |-> 64,
                                        tenacity |-> 5, epoch_size |-> 4])
                          ELSE params)
    /\ se_last' = "set_params_senteval"
    /\ se_calls' = se_calls + 1
    /\ UNCHANGED se_handed
    /\ UNCHANGED not_se_vars

\* run: senteval.engine.SE(self.params_senteval, batcher_func, prepare_func)
\* and se.eval(self.transfer_tasks).
run ==
    /\ se_calls < MaxSeCalls
    /\ IF {"params_senteval", "transfer_tasks"} \subseteq DOMAIN se_self
       THEN /\ se_exc' = ""
            /\ se_handed' = <<se_self["params_senteval"], se_self["transfer_tasks"]>>
       ELSE /\ se_exc' = "AttributeError"
            /\ se_handed' = se_handed
    /\ se_last' = "run"
    /\ se_calls' = se_calls + 1
    /\ UNCHANGED se_self
    /\ UNCHANGED not_se_vars

SeNext ==
    \/ set_transfer_data_path
    \/ set_transfer_tasks
    \/ set_model
    \/ set_params_senteval
    \/ run

SpecSentEval == SeInit /\ [][SeNext]_vars


(***************************************************************************)
(* postprocess_token_labels on rows of the caller's choosing               *)
(* (rectangular label and mask arrays, as predict and the preprocessing    *)
(* produce them)                                                           *)
(***************************************************************************)
MaxPostRows == 2      \* most rows handed to postprocess_token_labels
MaxPostLen == 2       \* longest row handed to postprocess_token_labels

not_pp_vars == <<cls_vars, ner_vars, dl_vars, wr_vars, dn_vars, se_vars>>

\* Label id rows of length n: the ids alternate, starting with 0 or with 1.
PostLabelRows(n) == {[k \in 1..n |-> (k + s) % 2] : s \in {0, 1}}
\* label_map: None, the empty dict, a dict of both ids, a dict without id 1.
PostLabelMaps ==
    {[none |-> TRUE, val |-> <<>>], [none |-> FALSE, val |-> <<>>],
     [none |-> FALSE, val |-> [t \in {"O", "B"} |-> IF t = "O" THEN 0 ELSE 1]],
     [none |-> FALSE, val |-> [t \in {"O"} |-> 0]]}

PpInit ==
    /\ pp_pc = "call"
    /\ \E rows \in 0..MaxPostRows, n \in 0..MaxPostLen :
          /\ pp_labels \in [1..rows -> PostLabelRows(n)]
          /\ pp_input_mask \in [1..rows -> [1..n -> {0, 1}]]
          /\ pp_trailing_token_mask \in
                {[none |-> TRUE, val |-> <<>>],
                 [none |-> FALSE, val |-> [r \in 1..rows |-> [k \in 1..n |-> k % 2 = 1]]]}
    /\ pp_label_map \in PostLabelMaps
    /\ pp_remove \in BOOLEAN
    /\ pp_result = <<>>
    /\ ClsIdle
    /\ NerIdle
    /\ DlIdle
    /\ WrIdle
    /\ DnIdle
    /\ SeIdle

\* reversed_label_map[l_i] finds no entry for some label id.
LabelIdMissing(labels, label_map) ==
    /\ Truthy(label_map)
    /\ \E r \in 1..Len(labels) : \E i \in 1..Len(labels[r]) :
          labels[r][i] \notin DOMAIN ReversedLabelMap(label_map.val)

postprocess_token_labels_KeyError ==
    /\ pp_pc = "call"
    /\ LabelIdMissing(pp_labels, pp_label_map)
    /\ pp_pc' = "raised"
    /\ UNCHANGED <<pp_labels, pp_input_mask, pp_label_map, pp_remove,
                   pp_trailing_token_mask, pp_result>>
    /\ UNCHANGED not_pp_vars

postprocess_token_labels_call ==
    /\ pp_pc = "call"
    /\ ~LabelIdMissing(pp_labels, pp_label_map)
    /\ pp_result' = postprocess(pp_labels, pp_input_mask, pp_label_map, pp_remove,
                                ~pp_trailing_token_mask.none, pp_trailing_token_mask.val)
    /\ pp_pc' = "returned"
    /\ UNCHANGED <<pp_labels, pp_input_mask, pp_label_map, pp_remove,
                   pp_trailing_token_mask>>
    /\ UNCHANGED not_pp_vars

PpNext ==
    \/ postprocess_token_labels_KeyError
    \/ postprocess_token_labels_call

SpecPost == PpInit /\ [][PpNext]_vars


(***************************************************************************)
(* Properties of preprocess_classification_tokens                          *)
(***************************************************************************)
ClsRows == 1..Len(cls_tokens)

\* C1: for 2 <= max_len <= 512 and a token list with len + 2 < max_len, the
\* id row has exactly max_len entries, every position after the end marker
\* is 0, and the mask is 1 exactly where the id is nonzero and 0 elsewhere.
C1_ShortRowPaddedAndMasked ==
    (cls_pc = "done" /\ cls_max_len >= 2 /\ cls_max_len <= BERT_MAX_LEN) =>
        \A r \in ClsRows :
            Len(cls_tokens[r]) + 2 < cls_max_len =>
                /\ Len(cls_ids[r]) = cls_max_len
                /\ Len(cls_mask[r]) = cls_max_len
                /\ cls_ids[r][Len(cls_tokens[r]) + 2] = vocab["[SEP]"]
                /\ \A i \in (Len(cls_tokens[r]) + 3)..cls_max_len : cls_ids[r][i] = 0
                /\ \A i \in 1..cls_max_len :
                       cls_mask[r][i] = (IF cls_ids[r][i] # 0 THEN 1 ELSE 0)

\* A short row was preprocessed: it is padded, and its body holds a token
\* whose id is 0, so that a mask entry inside the real content is 0.
C1_Witness ==
    /\ cls_pc = "done"
    /\ cls_max_len = MaxLen
    /\ \E r \in ClsRows :
          /\ Len(cls_tokens[r]) = 1
          /\ cls_ids[r][2] = 0
          /\ cls_mask[r] = <<1, 0, 1>> \o PyRepeat(0, MaxLen - 3)

\* The kept body of a row: at most max_len - 2 tokens.
KeptBody(r) == Min(Len(cls_tokens[r]), cls_max_len - 2)

RowWellFormed(r) ==
    /\ Len(cls_ids[r]) = cls_max_len
    /\ Len(cls_mask[r]) = cls_max_len
    /\ cls_ids[r][1] = vocab["[CLS]"]
    /\ \A i \in 1..KeptBody(r) : cls_ids[r][i + 1] = vocab[cls_tokens[r][i]]
    /\ cls_ids[r][KeptBody(r) + 2] = vocab["[SEP]"]

\* C2 as stated: for every token list and every 1 <= max_len <= 512, each id
\* row and mask row has exactly max_len entries, starts with the start
\* marker and has the end marker right after the kept body.
C2_Original ==
    (cls_pc = "done" /\ cls_max_len >= 1 /\ cls_max_len <= BERT_MAX_LEN) =>
        \A r \in ClsRows : RowWellFormed(r)

\* C2 amended: the same for every 2 <= max_len <= 512.
C2_RowsHaveMaxLenAndMarkers ==
    (cls_pc = "done" /\ cls_max_len >= 2 /\ cls_max_len <= BERT_MAX_LEN) =>
        \A r \in ClsRows : RowWellFormed(r)

\* A token list longer than max_len - 2 was truncated and wrapped in markers.
C2_Witness ==
    /\ cls_pc = "done"
    /\ cls_max_len = 3
    /\ \E r \in ClsRows :
          /\ Len(cls_tokens[r]) = MaxTokens
          /\ cls_ids[r] = <<vocab["[CLS]"], vocab[cls_tokens[r][1]], vocab["[SEP]"]>>

(***************************************************************************)
(* Properties of preprocess_ner_tokens and postprocess_token_labels        *)
(***************************************************************************)
NerEnded == ner_pc \in {"returned", "raised", "post"}
NerReturned == ner_pc \in {"returned", "post"}

RECURSIVE FragsBefore(_, _)
\* Number of word pieces of the words before word j.
FragsBefore(words, j) ==
    IF j <= 1 THEN 0
    ELSE FragsBefore(words, j - 1) + Len(tokenize(words[j - 1]))

TotalFrags(words) == FragsBefore(words, Len(words) + 1)

\* How a tag appears in a returned label row.
LabelOut(tag) == IF Truthy(ner_label_map) THEN ner_label_map.val[tag] ELSE tag

Count(row, v) == Cardinality({i \in 1..Len(row) : row[i] = v})

\* C3 as stated: for every requested max_len > 512 both preprocessing
\* functions complete normally and every returned row has 512 entries.
C3_BothClampTo512 ==
    /\ (cls_pc = "done" /\ cls_max_len > BERT_MAX_LEN) =>
          \A r \in ClsRows : Len(cls_ids[r]) = BERT_MAX_LEN /\ Len(cls_mask[r]) = BERT_MAX_LEN
    /\ (NerEnded /\ ner_max_len > BERT_MAX_LEN) =>
          /\ ner_pc # "raised"
          /\ \A k \in 1..3 : \A r \in 1..Len(ner_result[k]) :
                Len(ner_result[k][r]) = BERT_MAX_LEN

\* C4: whenever preprocess_ner_tokens returns, it returns a 3-tuple if labels
\* was None at call time and a 4-tuple if labels was anything else (the empty
\* list included), whatever label_map is.
C4_ArityFollowsLabelsNone ==
    NerReturned => Len(ner_result) = (IF ner_labels.none THEN 3 ELSE 4)

\* The call returned with labels=[] (not None, but false) and a usable label_map.
C4_Witness ==
    /\ ner_pc = "returned"
    /\ ~ner_labels.none /\ ner_labels.val = <<>>
    /\ Truthy(ner_label_map)
    /\ Len(ner_result) = 4

\* The rows in which word j of the (single) input string was tokenized with
\* its own tag and all its pieces inside max_len.
WordInRow(j) ==
    /\ NerReturned
    /\ ~ner_labels.none /\ Len(ner_labels.val) = 1
    /\ j \in 1..Min(Len(split(ner_text[1])), Len(ner_labels.val[1]))
    /\ FragsBefore(split(ner_text[1]), j + 1) <= ner_max_len

PieceLabelsOf(j) ==
    LET words == split(ner_text[1])
        off == FragsBefore(words, j)
        k == Len(tokenize(words[j]))
    IN  /\ ner_result[4][1][off + 1] = LabelOut(ner_labels.val[1][j])
        /\ \A i \in 2..k :
              /\ ner_result[4][1][off + i] = LabelOut(ner_trailing_piece_tag)
              /\ ner_result[3][1][off + i] = FALSE

FirstPieceMask(j) == ner_result[3][1][FragsBefore(split(ner_text[1]), j) + 1]

RoundTripMade ==
    /\ ner_pc = "post"
    /\ post_remove /\ post_mask_given
    /\ Len(ner_labels.val) = 1
    /\ Len(ner_labels.val[1]) = Len(split(ner_text[1]))
    /\ TotalFrags(split(ner_text[1])) <= ner_max_len

C7_AllWordsTokenized ==
    (/\ NerReturned
     /\ \/ ner_labels.none
        \/ /\ Len(ner_labels.val) = 1
           /\ Len(ner_labels.val[1]) = Len(split(ner_text[1]))
     /\ TotalFrags(split(ner_text[1])) <= ner_max_len)
    => Count(ner_result[2][1], 1) = TotalFrags(split(ner_text[1]))

(***************************************************************************)
(* Properties of create_data_loader                                        *)
(***************************************************************************)
Contains(msg, piece) == \E i \in 1..Len(msg) : msg[i] = piece

\* C8: create_data_loader with a sample_method outside {"random",
\* "sequential", "distributed"} raises a ValueError whose message contains
\* the invalid value and names random, sequential and distributed, and no
\* data loader is returned.
C8_InvalidSampleMethodRaises ==
    (dl_pc \notin {"call", "idle"}
       /\ dl_sample_method \notin {"random", "sequential", "distributed"})
    => /\ dl_pc = "raised"
       /\ dl_exc.type = "ValueError"
       /\ Contains(dl_exc.msg, dl_sample_method)
       /\ Contains(dl_exc.msg, "random")
       /\ Contains(dl_exc.msg, "sequential")
       /\ Contains(dl_exc.msg, "distributed")
       /\ dl_sampler = NoSampler /\ dl_tensor_data = <<>>

\* The call with sample_method="bogus" has ended.
C8_Witness ==
    /\ dl_pc = "raised"
    /\ dl_sample_method = "bogus"
    /\ dl_exc.type = "ValueError"

RECURSIVE Flatten(_)
\* The rows of a pass, batch after batch.
Flatten(batches) ==
    IF batches = <<>> THEN <<>> ELSE Head(batches) \o Flatten(Tail(batches))

PassCompleted == dl_pc = "loader" /\ dl_last # <<>>
TwoPassesCompleted == PassCompleted /\ dl_prev # <<>>

\* C9: a "sequential" loader yields on every full pass the rows in exactly
\* their input order, and two consecutive full passes yield identical row
\* sequences.
C9_SequentialKeepsOrder ==
    (dl_sample_method = "sequential" /\ PassCompleted)
    => /\ Flatten(dl_last) = dl_tensor_data
       /\ \A i \in 1..Len(dl_input_ids) : Flatten(dl_last)[i][1] = dl_input_ids[i]
       /\ TwoPassesCompleted => Flatten(dl_prev) = Flatten(dl_last)

\* Two sequential passes over rows that differ, in batches of two.
C9_Witness ==
    /\ dl_sample_method = "sequential"
    /\ TwoPassesCompleted
    /\ dl_input_ids = <<<<7>>, <<8>>, <<8>>>>
    /\ dl_batch_size = 2
    /\ Len(dl_last) = 2

SameMultiset(a, b) ==
    /\ Len(a) = Len(b)
    /\ \A i \in 1..Len(a) :
          Cardinality({k \in 1..Len(a) : a[k] = a[i]})
            = Cardinality({k \in 1..Len(b) : b[k] = a[i]})

\* C10: a "random" loader over n rows yields on every full pass each input
\* row exactly once (the same multiset of rows on every pass), in batches of
\* batch_size rows except possibly the last, which has n mod batch_size rows
\* when n is not a multiple of batch_size.
C10_RandomPassIsPermutation ==
    (dl_sample_method = "random" /\ PassCompleted)
    => LET n == Len(dl_input_ids)
           nb == Len(dl_last)
       IN  /\ Len(dl_order) = n
           /\ \A i \in 1..n : \E k \in 1..n : dl_order[k] = i
           /\ \A k \in 1..n : Flatten(dl_last)[k] = dl_tensor_data[dl_order[k]]
           /\ SameMultiset(Flatten(dl_last), dl_tensor_data)
           /\ TwoPassesCompleted => SameMultiset(Flatten(dl_prev), Flatten(dl_last))
           /\ \A b \in 1..(nb - 1) : Len(dl_last[b]) = dl_batch_size
           /\ Len(dl_last[nb]) = (IF n % dl_batch_size = 0 THEN dl_batch_size
                                  ELSE n % dl_batch_size)

\* Two random passes in different orders, the last batch smaller than the rest.
C10_Witness ==
    /\ dl_sample_method = "random"
    /\ TwoPassesCompleted
    /\ Len(dl_input_ids) = 3
    /\ dl_batch_size = 2
    /\ Flatten(dl_prev) # Flatten(dl_last)
    /\ Len(dl_last[1]) = 2 /\ Len(dl_last[2]) = 1

(***************************************************************************)
(* Properties of the classifier wrappers                                   *)
(***************************************************************************)
\* C11: when a wrapper (BERTModelWrapper subclass or XLNetSequenceClassifier)
\* is constructed with num_labels < 2, the constructor ends with a ValueError,
\* no pretrained model or configuration has been fetched and no instance
\* attribute has been assigned.
C11_TooFewLabelsRaisesFirst ==
    (wr_pc \notin {"idle", "new"} /\ wr_args.num_labels < 2) =>
        /\ wr_pc = "raised"
        /\ wr_exc = "ValueError"
        /\ wr_loaded = <<>>
        /\ DOMAIN wr_self = {}

C11_Witness ==
    /\ wr_class = "BERTTokenClassifier"
    /\ wr_args.num_labels = 1
    /\ wr_pc = "raised"
    /\ wr_exc = "ValueError"
    /\ DOMAIN wr_self = {}

\* C12: constructing a BERTTokenClassifier with num_labels >= 2 ends in the
\* state Constructed with self.model loaded from the instance's own language,
\* cache_dir and num_labels.
C12_ConstructorLoadsModel ==
    (wr_class = "BERTTokenClassifier" /\ wr_pc \notin {"idle", "new"}
        /\ wr_args.num_labels >= 2) =>
        /\ wr_pc # "raised"
        /\ "model" \in DOMAIN wr_self
        /\ wr_self["model"] = BertForTokenClassification(wr_args.language,
                                  wr_args.cache_dir, wr_args.num_labels)


PredictEnded == wr_pc = "Constructed" /\ wr_pred.batch_size > 0
FitReturned == wr_pc = "Constructed" /\ wr_fit.batch_size > 0 /\ wr_exc = ""

\* C13: BERTTokenClassifier.predict returns one label sequence per input row,
\* the i-th being the prediction for the i-th row, for every batch_size >= 1.
C13_PredictOnePerRowInOrder ==
    (wr_class = "BERTTokenClassifier" /\ PredictEnded) =>
        /\ wr_exc = ""
        /\ Len(wr_pred.result) = Len(wr_pred.token_ids)
        /\ \A i \in 1..Len(wr_pred.token_ids) :
              wr_pred.result[i] = TokenLabelsOf(wr_weights, wr_pred.token_ids[i], <<1>>)

\* C14: XLNetSequenceClassifier.predict called without token_type_ids returns
\* one class per input row, in input order, for every batch_size >= 1.
C14_PredictWithoutSegmentIds ==
    (wr_class = "XLNetSequenceClassifier" /\ PredictEnded /\ ~wr_pred.token_type_ids) =>
        /\ wr_exc = ""
        /\ Len(wr_pred.result) = Len(wr_pred.token_ids)
        /\ \A i \in 1..Len(wr_pred.token_ids) :
              wr_pred.result[i].input_ids = wr_pred.token_ids[i]

\* C15: over any sequence of fit and predict calls on one wrapper the
\* parameters change only in the optimizer step of fit; a predict call leaves
\* both the parameters and their gradients as they were, and every call starts
\* from the parameters the previous call left.
C15_WeightsChangeOnlyInFit ==
    [][/\ wr_weights' # wr_weights => (wr_pc = "step" /\ wr_pc' = "zero_grad")
       /\ (wr_calls' # wr_calls /\ wr_pred' # NoPred) =>
              (wr_weights' = wr_weights /\ wr_grad' = wr_grad)]_vars

C15_Witness ==
    /\ PredictEnded
    /\ wr_calls = 2
    /\ wr_exc = ""
    /\ wr_weights > 0
    /\ Len(wr_pred.result) > 0
    /\ wr_pred.result[1].weights = wr_weights

\* C19: when BERTTokenClassifier.fit is given warmup_proportion and returns,
\* the t_total handed to the optimizer equals the number of optimizer steps
\* the call executed.
C19_ScheduleTotalEqualsSteps ==
    (wr_class = "BERTTokenClassifier" /\ FitReturned /\ wr_fit.warmup) =>
        wr_fit.t_total = wr_fit.steps

BatchOrder(class) ==
    IF class = "BERTTokenClassifier"
    THEN <<"forward", "backward", "step", "zero_grad">>
    ELSE <<"forward", "backward", "clip", "step", "zero_grad">>

IsPrefix(a, b) == Len(a) <= Len(b) /\ a = SubSeq(b, 1, Len(a))

AtBatchLoopHead == wr_pc = "batch"
BeforeForward == AtBatchLoopHead /\ wr_fit.pos < Len(wr_fit.order)

\* C20: in both fit loops the steps of a batch come in the order forward,
\* backward, clip (XLNet only), one optimizer step, zero_grad; and whenever a
\* forward pass is about to start the gradients are zero or absent.
C20_BatchOrderAndZeroGrads ==
    /\ IsPrefix(wr_fit.events, BatchOrder(wr_class))
    /\ (AtBatchLoopHead /\ wr_fit.events # <<>>) => wr_fit.events = BatchOrder(wr_class)
    /\ BeforeForward => wr_grad \in {"absent", "zero"}

C20_Witness ==
    /\ BeforeForward
    /\ wr_calls = 2
    /\ wr_fit.epoch = 1
    /\ wr_fit.pos > 0
    /\ wr_grad = "zero"
    /\ wr_fit.events = BatchOrder(wr_class)


(***************************************************************************)
(* Properties of maybe_download                                            *)
(***************************************************************************)
SizeMismatch(call) == ~call.expected_bytes.none /\ call.st_size # call.expected_bytes.val

\* C16: a maybe_download call given expected_bytes that finds a file of another
\* size at the path (just downloaded or already there) ends with IOError and
\* with no file at the path; and the call after one that ended with IOError
\* downloads afresh.
C16_BadFileRemovedAndRefetched ==
    [][dn_calls' = dn_calls + 1 =>
          /\ SizeMismatch(dn_last') => (dn_exc' = "IOError" /\ ~dn_file'.exists)
          /\ dn_exc = "IOError" => dn_last'.downloaded]_vars

\* A second call, after a first one that removed the file, has downloaded
\* afresh and failed the size check again: no file is left.
C16_Witness ==
    /\ dn_calls = 2
    /\ dn_last.downloaded
    /\ SizeMismatch(dn_last)
    /\ dn_exc = "IOError"
    /\ ~dn_file.exists


(***************************************************************************)
(* Properties of SentEvalRunner                                            *)
(***************************************************************************)
ParamsJustSet == se_last = "set_params_senteval" /\ se_exc = ""
RequiredKeys == {"model", "task_path", "usepytorch", "kfold"}

\* C17: right after set_params_senteval the bundle has a "classifier" entry
\* exactly when some task of the selected transfer_tasks is a classifying
\* task; besides that entry it holds model, task_path, usepytorch and kfold
\* and nothing else.
C17_ClassifierIffClassifyingTask ==
    ParamsJustSet =>
        LET bundle == se_self["params_senteval"]
            tasks == se_self["transfer_tasks"]
        IN  /\ ("classifier" \in DOMAIN bundle) <=>
                   (\E i \in 1..Len(tasks) : tasks[i] \in classifying_tasks)
            /\ (DOMAIN bundle) \ {"classifier"} = RequiredKeys

\* The classifying task is the second of two: the bundle has the entry.
C17_Witness ==
    /\ ParamsJustSet
    /\ se_self["transfer_tasks"] = <<"STS12", "MR">>
    /\ "classifier" \in DOMAIN se_self["params_senteval"]


(***************************************************************************)
(* Properties of postprocess_token_labels on its own                       *)
(***************************************************************************)
\* The call removed no trailing word pieces.
NoTrailingRemoval ==
    ~pp_remove \/ pp_trailing_token_mask.none \/ Len(pp_trailing_token_mask.val) = 0

\* Row r of the labels as postprocess_token_labels reads them: mapped back
\* through label_map when one is given.
PostLabelAt(r, i) ==
    IF Truthy(pp_label_map)
    THEN CHOOSE t \in DOMAIN pp_label_map.val : pp_label_map.val[t] = pp_labels[r][i]
    ELSE pp_labels[r][i]

\* The positions of row r whose mask is 1, in increasing order.
KeptPositions(r) == {i \in 1..Len(pp_input_mask[r]) : pp_input_mask[r][i] = 1}
RankIn(S, i) == Cardinality({j \in S : j <= i})

\* C18: without trailing removal, row r of the result is the subsequence of
\* label row r at the positions whose mask is 1, in the original order, each
\* row on its own; a label at a mask-0 position is in no result row.
C18_RowsKeepMaskedPositions ==
    (pp_pc = "returned" /\ NoTrailingRemoval) =>
        /\ Len(pp_result) = Len(pp_labels)
        /\ \A r \in 1..Len(pp_labels) :
              /\ Len(pp_result[r]) = Cardinality(KeptPositions(r))
              /\ \A i \in KeptPositions(r) :
                    pp_result[r][RankIn(KeptPositions(r), i)] = PostLabelAt(r, i)

\* Two rows with different masks, one of them with the padding in front, come
\* back with different lengths.
C18_Witness ==
    /\ pp_pc = "returned"
    /\ NoTrailingRemoval
    /\ pp_labels = <<<<0, 1>>, <<0, 1>>>>
    /\ pp_input_mask = <<<<0, 1>>, <<1, 1>>>>
    /\ pp_result = <<<<1>>, <<0, 1>>>>



(***************************************************************************)
(* Properties of the periodic side-effects of XLNetSequenceClassifier.fit  *)
(***************************************************************************)
XLNetFitRunning == wr_class = "XLNetSequenceClassifier" /\ wr_fit.batch_size > 0
AfterSideEffects == wr_pc \in {"batch", "epoch", "Constructed"}

\* C21: XLNetSequenceClassifier.fit with logging_steps = k > 0 has logged a
\* learning-rate metric and a loss metric for every global step that is a
\* multiple of k, has saved a checkpoint for every multiple of save_steps
\* when save_steps > 0, and goes on to completion after these side-effects:
\* once a step was taken it ends without an exception, with every scheduled
\* step executed.
C21_PeriodicLoggingAndTrainingContinues ==
    (XLNetFitRunning /\ wr_fit.logging_steps > 0 /\ AfterSideEffects) =>
        /\ wr_fit.lr_logged = wr_fit.global_step \div wr_fit.logging_steps
        /\ wr_fit.loss_logged = wr_fit.global_step \div wr_fit.logging_steps
        /\ wr_fit.save_steps > 0 =>
               wr_fit.saved = wr_fit.global_step \div wr_fit.save_steps
        /\ (wr_pc = "Constructed" /\ wr_fit.global_step > 0) =>
               /\ wr_exc = ""
               /\ wr_fit.steps = wr_fit.t_total


(***************************************************************************)
(* Properties of the epoch loops of both fit methods                       *)
(***************************************************************************)
FitEnded == wr_pc = "Constructed" /\ wr_fit.batch_size > 0
PassJustEnded == wr_pc = "epoch" /\ wr_fit.epoch > 0

\* C22: fit of both classifiers performs exactly num_epochs full passes over
\* the training rows, each pass visiting every row exactly once, and then
\* returns normally, for every num_epochs >= 0 and every row count, the runs
\* whose batch loop body never executes included: a pass that ended has
\* visited each row once, and a fit that ended has completed num_epochs
\* passes and raised nothing.
C22_ExactlyNumEpochsPassesThenReturn ==
    /\ wr_fit.epoch <= wr_fit.num_epochs
    /\ PassJustEnded =>
           /\ Len(wr_fit.order) = wr_fit.n
           /\ wr_fit.pos = wr_fit.n
           /\ \A i \in 1..wr_fit.n :
                 Cardinality({k \in 1..wr_fit.n : wr_fit.order[k] = i}) = 1
    /\ FitEnded =>
           /\ wr_fit.epoch = wr_fit.num_epochs
           /\ wr_exc = ""


(***************************************************************************)
(* Properties of SentEvalRunner.run after any sequence of setter calls     *)
(***************************************************************************)
RunHandedOver == se_last = "run" /\ se_exc = ""

\* C23: after any sequence of SentEvalRunner setter calls followed by run,
\* the parameter bundle handed to the harness carries the most recently set
\* model and data path, and it has a classifier entry exactly when the task
\* list that run evaluates holds a classifying task; and
\* set_params_senteval succeeds only when model, data path and tasks have
\* all been set.
C23_RunHandsOverCurrentSettings ==
    /\ RunHandedOver =>
           /\ se_handed[1]["model"] = se_self["model"]
           /\ se_handed[1]["task_path"] = se_self["transfer_data_path"]
           /\ se_handed[2] = se_self["transfer_tasks"]
           /\ "classifier" \in DOMAIN se_handed[1] <=> AnyClassifying(se_handed[2])
    /\ ParamsJustSet =>
           {"model", "transfer_data_path", "transfer_tasks"} \subseteq DOMAIN se_self


(***************************************************************************)
(* Properties of the label padding of preprocess_ner_tokens                *)
(***************************************************************************)
LabelMapGiven == ~ner_label_map.none
NerLabelsUsed == IF ner_labels.none THEN DefaultLabels(ner_text) ELSE ner_labels.val
NerRowCount == Min(Len(ner_text), Len(NerLabelsUsed))

\* The labels of row r as strings, before any mapping.
PlainLabels(r) ==
    NerRow(ner_text[r], NerLabelsUsed[r], ClampMaxLen(ner_max_len),
           [none |-> TRUE, val |-> <<>>], ner_trailing_piece_tag).label_ids

\* The number of tokens of row r.
NerTokenCount(r) ==
    Min(Len(ExpandWords(split(ner_text[r]), NerLabelsUsed[r], 1,
                        ner_trailing_piece_tag).tokens),
        ClampMaxLen(ner_max_len))

\* A non-empty label_map with every supplied label and the trailing tag, but
\* without "O".
LabelMapLacksOnlyO ==
    /\ LabelMapGiven
    /\ DOMAIN ner_label_map.val # {}
    /\ "O" \notin DOMAIN ner_label_map.val
    /\ ner_trailing_piece_tag \in DOMAIN ner_label_map.val
    /\ ner_labels.none \/
         \A r \in 1..Len(ner_labels.val) : \A i \in 1..Len(ner_labels.val[r]) :
            ner_labels.val[r][i] \in DOMAIN ner_label_map.val

SomeRowShorterThanMaxLen == \E r \in 1..NerRowCount : NerTokenCount(r) < ner_max_len

\* C24: preprocess_ner_tokens pads every label row to max_len with the label
\* "O"; when a label_map is given every entry of every returned label row,
\* padding included, is label_map applied to its label; and a non-empty
\* label_map that covers the supplied labels and the trailing tag but not "O"
\* makes the call fail with a lookup error (KeyError) whenever some row is
\* shorter than max_len, without returning anything.
C24_PaddingLabelIsOAndMapped ==
    /\ (NerReturned /\ Len(ner_result) = 4) =>
           \A r \in 1..Len(ner_result[4]) :
              LET row == ner_result[4][r]
                  k == Count(ner_result[2][r], 1)
              IN  /\ Len(row) = ner_max_len
                  /\ \A i \in (k + 1)..Len(row) : PlainLabels(r)[i] = "O"
                  /\ ~LabelMapGiven => row = PlainLabels(r)
                  /\ LabelMapGiven =>
                        \A i \in 1..Len(row) :
                           /\ PlainLabels(r)[i] \in DOMAIN ner_label_map.val
                           /\ row[i] = ner_label_map.val[PlainLabels(r)[i]]
    /\ (NerEnded /\ LabelMapLacksOnlyO /\ SomeRowShorterThanMaxLen) =>
           /\ ner_pc = "raised"
           /\ ner_exc = "KeyError"
           /\ ner_result = <<>>

====
